---------------------------- MODULE Spec2Model ----------------------------
(***************************************************************************)
(* Customisable billiards: the reliable message channel (Connection) of    *)
(* src/server.py and src/client.py, the Lobby's shot handling and update   *)
(* loop, the 8-ball rules evaluation of src/server.py, the Server's        *)
(* bookkeeping of logins and lobbies, the Table and Ball of                *)
(* src/simulation.py and the Queue of src/data.py.                         *)
(*                                                                         *)
(* The specifications share the variables:                                 *)
(*   ChanSpec / FairChanSpec : one server-side and one client-side         *)
(*       Connection joined by two byte streams, each with its receiver,    *)
(*       processor and sender threads.                                     *)
(*   LobbySpec / FairLobbySpec : the Lobby's handlers (processor threads)  *)
(*       interleaved with the Lobby.__update loop, statement by statement. *)
(*   RulesSpec : the same Lobby driven one whole handler and one whole     *)
(*       settle-and-check step at a time (the 8-ball rules state machine). *)
(*   DispatchSpec : the two Connections with peers that also send what     *)
(*       the receiving side cannot dispatch or decode.                     *)
(*   QuitSpec : a started match that a player leaves, by the quit control  *)
(*       or by a broken channel, and the Server's clean-up.                *)
(*   ChunkSpec : the chunk loops of the sender on one frame.               *)
(*   StreamSpec : the receiver thread's framing of the byte stream: json   *)
(*       text joined by `#`, split again and decoded.                      *)
(*   TableSpec : Table.update's pocketing of balls (src/simulation.py), the*)
(*       placing of the cue ball and reset_counts.                         *)
(*   BallSpec : one Ball moving along one axis between two rails.          *)
(*   LoginSpec : a Connection's login attempts, logout and flags.          *)
(*   NewLobbySpec : a Lobby from its creation to its start or to an early  *)
(*       quit, and the Server's clean-up of players and lobbies.           *)
(*   QueueSpec : the Queue of src/data.py.                                 *)
(*   StrikeSpec : one Ball struck by the cue and Table.update's motion     *)
(*       flags.                                                            *)
(*   CueSpec : the cue telemetry of the client and of the Lobby.           *)
(*   CollisionSpec : circle_line_collision_check on a circle and a rail.   *)
(*   DbSpec / FairDbSpec : Server.__add_db_request on two connection       *)
(*       threads and the database thread.                                  *)
(*   GuardSpec : the Lobby's command handlers called with any command a    *)
(*       Connection may receive.                                           *)
(*   JoinSpec : Server.__join_existing_lobby on the processor threads of   *)
(*       several Connections.                                              *)
(***************************************************************************)
EXTENDS Integers, Sequences, FiniteSets, TLC

(***************************************************************************)
(* Bounds of the model.                                                    *)
(***************************************************************************)
\* significant messages the two applications submit, in all
MaxMsgs == 2
\* cue-telemetry (advisory) messages the two applications submit, in all
MaxCue == 1
\* resend timeouts that pass although some thread could still have run
MaxEarlyTimeouts == 1
\* balls of each group racked on the table (7 in the program)
GroupSize == 2
\* balls pocketed by one shot, at most
MaxPocketed == 2
\* shots made in a run of LobbySpec
MaxShots == 2
\* characters of the longest frame the chunk loops are run on
MaxFrameLen == 1030
\* messages written to the byte stream of the receiver model
MaxStreamMsgs == 2
\* longest string argument of a message on that stream
MaxArgLen == 2
\* numbered balls racked on the Table of the pocket model (15 in the program)
TableObjectBalls == 3
\* times the cue ball is pocketed in a run of TableSpec
MaxCuePockets == 2
\* items a Queue of the queue model holds, at most
MaxQueueLen == 3
\* the greatest item put on that Queue
MaxQueueItem == 2
\* distance between the left and the right rail, in length units
TableLength == 6
\* radius of a ball, in length units
BallRadius == 1
\* greatest distance a struck ball covers in one Table.update
MaxSpeed == 8
\* greatest force of a strike, in units of force
MaxForce == 3
\* coeff_of_static_friction * mass * gravity, in the same units
StaticResistance == 1
\* strikes of the one ball
MaxStrikes == 3
\* distinct positions of the cue that the telemetry tells apart
MaxCueValue == 2
\* telemetry messages one sender enqueues
MaxCueSends == 3
\* coordinates of the centres and of the segments' ends: 0..MaxCoord
MaxCoord == 3
\* radii of the circles: 1..MaxRadius
MaxRadius == 2
\* database requests one connection thread issues
MaxRequests == 2
\* commands that reach the Lobby's handlers from the Connections
MaxCommands == 2
\* connections that ask to join the one lobby
MaxJoiners == 3

(***************************************************************************)
(* Program constants.                                                      *)
(***************************************************************************)
\* resend attempts before the sender declares the channel broken
MaxResend == 3
\* failed logins after which __login_attempt refuses every login
MaxFailedLogins == 5
\* the most characters one recv of the receiver returns
RecvSize == 1024
\* the step of the chunk loops and the width of their slices
ChunkSize == 1024

\* the two players of a Lobby
Players == {1, 2}

Peers == {"server", "client"}

Other(p) == IF p = "server" THEN "client" ELSE "server"

\* the None item: the sentinel of Connection.disconnect, and what
\* BlockedQueue.dequeue returns when the list is empty
NoneItem == [command |-> "None", id |-> 0]

\* the ignore lists (commands that are not acknowledged)
ServerIgnoreReceived ==
    {"received", "update_cue_position", "update_server_cue_position", "disconnect"}

ClientIgnoreReceived ==
    {"received", "update_server_cue_position", "update_cue_position"}

IgnoreReceived(p) ==
    IF p = "server" THEN ServerIgnoreReceived ELSE ClientIgnoreReceived

\* the command of the significant gameplay message, and of the telemetry
\* message, that peer p's application submits
SigCommand(p) == IF p = "server" THEN "start_next_turn" ELSE "hit_ball"

CueCommand(p) ==
    IF p = "server" THEN "update_cue_position" ELSE "update_server_cue_position"

\* commands the receiving Connection cannot dispatch: a name that is not a
\* key of its `commands` dictionary, and a registered command whose args
\* do not fit the handler's parameters
BadCommands == {"unknown_command", "wrong_args"}

\* a frame whose text json.loads rejects
MalformedFrame == [command |-> "malformed", id |-> 0]

\* the id under which the history records the client's "disconnect" message
\* (outside the client's ignore list, so the client awaits its acknowledgment)
QuitId == MaxMsgs + 1

VARIABLES
    \* ---- Connection (one per peer) ----
    in_use,          \* [Peers -> BOOLEAN]
    waiting,         \* [Peers -> BOOLEAN] awaiting-ack flag
    send_queue,      \* [Peers -> Seq(item)]  BlockedQueue.items
    send_length,     \* [Peers -> Nat]        BlockedQueue.length (semaphore)
    receive_queue,   \* [Peers -> Seq(item)]
    receive_length,  \* [Peers -> Nat]
    wire,            \* [Peers -> Seq(frame)] frames in flight TO the peer
    send_pc,         \* [Peers -> {"deq","wait","send","done"}]
    send_data,       \* [Peers -> item] the sender's local `data`
    prev_data,       \* [Peers -> item] the sender's local `prev_data`
    times_resent,    \* [Peers -> 0..MaxResend]
    recv_pc,         \* [Peers -> {"recv","done"}]
    proc_pc,         \* [Peers -> {"deq","done","dead"}]
    \* ---- the applications above the Connection ----
    submitted,       \* [Peers -> Nat] significant messages submitted so far
    cue_submitted,   \* [Peers -> Nat] telemetry messages submitted so far
    quit_sent,       \* BOOLEAN: the client's menu enqueued "disconnect"
    early_timeouts,  \* Nat: timeouts that passed while a thread could run
    \* ---- history (read by no action's guard) ----
    transmitted,     \* [Peers -> SUBSET Nat] ids of significant messages first written
    acked,           \* [Peers -> SUBSET Nat] ids whose acknowledgment came back
    replies,         \* [Peers -> [1..MaxMsgs -> Nat]] `received` replies produced per id
    broken,          \* [Peers -> {"no","sender","receiver","decode"}] who called __apply_error
    \* ---- Lobby ----
    player_turn,     \* 1 or 2
    break,           \* BOOLEAN  self.__break
    open,            \* BOOLEAN  self.__open
    p1_is_striped,   \* "None", "True" or "False"
    striped_balls,   \* number of balls in the list self.__striped_balls
    spotted_balls,   \* number of balls in the list self.__spotted_balls
    can_shoot,       \* BOOLEAN
    can_pass_turn,   \* BOOLEAN
    checked,         \* BOOLEAN
    do_check,        \* BOOLEAN
    pending,         \* SUBSET Players
    victor,          \* 0 (None), 1 or 2
    finished,        \* BOOLEAN: self.finished is a timestamp (non-zero)
    starting_player, \* settings["starting_player"]
    closings,        \* times self.__open went from True to False (2 = twice or more)
    last_args,       \* arguments of the last start_next_turn / load_settings sent
    client,          \* a client's NetworkedGame: _player_turn, _break, _open, _can_shoot
    \* ---- the players' Connections as the Lobby and the Server see them ----
    conn_in_use,     \* [Players -> BOOLEAN] connection.in_use
    in_lobby,        \* [Players -> BOOLEAN] connection.in_lobby
    can_delete,      \* [Players -> BOOLEAN] connection.can_delete
    deleted,         \* SUBSET Players: removed from Server.connections
    to_delete,       \* BOOLEAN  lobby.to_delete
    lobby_removed,   \* BOOLEAN: removed from Server.lobbies
    recorded,        \* the victor __record_game_stats stored, 0 before
    quit_pressed,    \* [Players -> BOOLEAN] the client's game has sent "quit"
    end_game_msgs,   \* [Players -> Nat] end_game messages enqueued for the player
    end_game_seen,   \* [Players -> BOOLEAN] the client handled an end_game
    forfeits,        \* times player_quit ran for this lobby
    first_quitter,   \* the player of the first player_quit call, 0 before
    \* ---- one run of the sender's chunk loops ----
    frame,           \* jsondata (and prev_data): the characters of the frame
    chunk_i,         \* the loop variable i
    written,         \* the characters handed to connection.send by the loop
    chunk_pc,        \* "first", "resend" (which loop runs) or "done"
    \* ---- the Lobby's Table ----
    balls,           \* [spotted, striped : Nat] coloured balls on the table
    holding,         \* BOOLEAN: the cue ball is in hand
    hit,             \* Seq(kind): the first ball of Table.hit, if any
    rail_contacts,   \* Nat: len(Table.rail_contacts)
    pocketed,        \* Seq(kind): Table.pocketed in order
    in_motion,       \* BOOLEAN  Table.in_motion
    moving,          \* BOOLEAN: some ball has a velocity or an applied force
    \* ---- threads and clients ----
    update_pc,       \* position of Lobby.__update
    hit_pc,          \* [Players -> position of that player's processor thread]
    drawing,         \* [Players -> BOOLEAN] the client's table simulates a shot
    client_ready,    \* BOOLEAN: the clients' _can_shoot
    client_can_pass, \* BOOLEAN: the clients' _can_pass_turn
    choosing,        \* the player whose client shows an open redo_choice, or 0
    \* ---- history (read by no action's guard, but for the shot bound) ----
    hits,            \* hit_ball commands handled in LobbySpec
    evals,           \* rule evaluations made by the update loop of LobbySpec
    simulated,       \* BOOLEAN: the Table has simulated the last shot
    drawn,           \* players whose finished_drawing for the last shot was handled
    last_eval,       \* what the last rule evaluation saw and decided
    last_sent        \* commands of the Lobby's last broadcast

chanVars ==
    <<in_use, waiting, send_queue, send_length, receive_queue, receive_length,
      wire, send_pc, send_data, prev_data, times_resent, recv_pc, proc_pc,
      submitted, cue_submitted, quit_sent, early_timeouts, transmitted, acked,
      replies, broken>>

lobbyVars ==
    <<player_turn, break, open, p1_is_striped, striped_balls, spotted_balls,
      can_shoot, can_pass_turn, checked, do_check, pending, victor, finished,
      starting_player, balls, holding, hit, rail_contacts, pocketed, in_motion,
      moving, update_pc, hit_pc, drawing, client_ready, client_can_pass,
      choosing, hits, evals, simulated, drawn, last_eval, last_sent,
      closings, last_args, client>>

quitVars ==
    <<conn_in_use, in_lobby, can_delete, deleted, to_delete, lobby_removed,
      recorded, quit_pressed, end_game_msgs, end_game_seen, forfeits,
      first_quitter>>

frameVars == <<frame, chunk_i, written, chunk_pc>>

VARIABLES
    \* ---- one byte stream and the receiver thread reading it ----
    tx_msgs,         \* the messages the sending peer has serialized, in order
    stream,          \* characters written to the socket and not yet read
    full_data,       \* the receiver's full_data between two recv calls
    delivered,       \* requests the receiver has put on its receive_queue
    rx_waiting,      \* BOOLEAN: the receiving Connection's waiting flag
    rx_error         \* BOOLEAN: the receiver has called __apply_error

streamVars == <<tx_msgs, stream, full_data, delivered, rx_waiting, rx_error>>

VARIABLES
    \* ---- a Table whose balls are told apart (pocket resolution) ----
    tb_balls,        \* Table.balls: the ball numbers in list order, 0 the cue ball
    tb_pocketed,     \* Table.pocketed since the last reset_counts
    tb_holding,      \* BOOLEAN: Table.holding is the cue ball
    tb_session,      \* balls appended to Table.pocketed since the rack
    tb_cue_session   \* how many of those were the cue ball

tableVars == <<tb_balls, tb_pocketed, tb_holding, tb_session, tb_cue_session>>

VARIABLES
    \* ---- one Ball moving across the Table, along the x axis ----
    bx,              \* Ball.pos.x, counted from the Table's pos.x
    bv               \* Ball.vel.x, in length units per Table.update

ballVars == <<bx, bv>>

VARIABLES
    \* ---- one Connection at the Server's login ----
    failed_logins,   \* Connection.failed_logins
    login_id,        \* Connection.id: 0 for None, else the UserID
    receive_cue_data,\* Connection.receive_cue_data
    can_start,       \* Connection.can_start
    locked_out,      \* BOOLEAN: failed_logins has reached MaxFailedLogins
    last_login       \* what the last login command met and did

loginVars ==
    <<failed_logins, login_id, receive_cue_data, can_start, locked_out,
      last_login>>

VARIABLES
    \* ---- a Lobby from its creation to the start of its game ----
    lb_players,      \* len(Lobby.players)
    lb_started,      \* Lobby.started: 0, 1 (start is waiting), 2 for a timestamp
    lb_can_start,    \* [Players -> BOOLEAN] Connection.can_start
    lb_in_lobby,     \* [Players -> BOOLEAN] Connection.in_lobby
    lb_in_use,       \* [Players -> BOOLEAN] Connection.in_use
    lb_can_delete,   \* [Players -> BOOLEAN] Connection.can_delete
    lb_deleted,      \* [Players -> BOOLEAN] the Server has removed the Connection
    lb_victor,       \* Lobby.victor, 0 for None
    lb_to_delete,    \* Lobby.to_delete
    lb_removed,      \* BOOLEAN: the Server has removed the Lobby
    lb_recorded,     \* BOOLEAN: __record_game_stats was called for the Lobby
    lb_early_quit    \* BOOLEAN: a player has quit before the game started

connVars == <<lb_in_use, lb_can_delete, lb_deleted>>

newLobbyVars ==
    <<lb_players, lb_started, lb_can_start, lb_in_lobby, lb_victor,
      lb_to_delete, lb_removed, lb_recorded, lb_early_quit, connVars>>

VARIABLES
    \* ---- a Queue of src/data.py ----
    queue_items,     \* Queue.items
    last_peek        \* the last peek: its result, and the queue before and after

queueVars == <<queue_items, last_peek>>

\* the state of the components that the channel and the Lobby do not use
auxVars ==
    <<streamVars, tableVars, ballVars, loginVars, newLobbyVars, queueVars>>

VARIABLES
    \* ---- one Ball that is struck, on a Table that reports in_motion ----
    sk_vel,          \* the ball's speed (vel is zero iff this is 0)
    sk_pos,          \* how far the ball has rolled from where it was racked
    sk_force,        \* applied_force: 0 for None, else the stored force
    sk_attempted,    \* BOOLEAN: attempted_force_application
    sk_in_motion,    \* BOOLEAN: Table.in_motion
    sk_prev,         \* BOOLEAN: Table.previously_in_motion
    \* ---- history (read by no action's guard, but for the strike bound) ----
    sk_strikes,      \* calls of apply_force so far
    sk_last,         \* what the last apply_force found and did
    sk_updates,      \* Table.update calls since the last apply_force (2 = more)
    sk_edges         \* updates since then that went from in motion to rest

strikeVars ==
    <<sk_vel, sk_pos, sk_force, sk_attempted, sk_in_motion, sk_prev, sk_strikes, sk_last, sk_updates, sk_edges>>

VARIABLES
    \* ---- cue telemetry of the Lobby and of the client whose turn it is ----
    cd_data,         \* Lobby.__cue_data: 0 for None, else the cue's position
    cd_prev,         \* Lobby.__prev_cue_data
    cd_log,          \* payloads of the update_cue_position messages enqueued
    cc_prev,         \* NetworkedGame.__prev_cue_data
    cc_log           \* payloads of the update_server_cue_position messages

cueVars == <<cd_data, cd_prev, cd_log, cc_prev, cc_log>>

VARIABLES
    \* ---- one call of circle_line_collision_check ----
    cl_called,       \* the function has been called
    cl_args,         \* the circle and the segment as they were passed
    cl_circle,       \* the Circle object after the call
    cl_line,         \* the LineSegment object after the call
    cl_result        \* the value returned

collideVars == <<cl_called, cl_args, cl_circle, cl_line, cl_result>>

VARIABLES
    \* ---- Server.__add_db_request and the database thread ----
    current_request_id,  \* Server.current_request_id
    database_queue,      \* Server.database_queue: requests not yet processed
    processed_queue,     \* Server.processed_queue: results not yet taken
    rq_pc,               \* per connection thread: its place in __add_db_request
    rq_receive,          \* per connection thread: the receive parameter
    rq_id,               \* per connection thread: its local request_id
    rq_data,             \* per connection thread: the item it peeked last
    rq_count,            \* per connection thread: requests issued so far
    rq_returned,         \* per connection thread: the result it returned last
    rq_removed           \* pairs <<thread, request>>: the thread took the
                         \* request's result off the processed queue

dbVars == <<current_request_id, database_queue, processed_queue, rq_pc, rq_receive, rq_id, rq_data, rq_count, rq_returned, rq_removed>>

VARIABLES
    \* ---- the Lobby's command handlers called from the Connections ----
    cmd_from,        \* the player whose Connection called a handler last, or 0
    cmd_count        \* handler calls so far

guardVars == <<cmd_from, cmd_count>>

VARIABLES
    \* ---- Server.__join_existing_lobby on the connections' processors ----
    jn_players,      \* Lobby.players of the lobby asked for: connections in order
    jn_pc,           \* per connection: its processor's place in the handler
    jn_in_lobby,     \* per connection: Connection.in_lobby
    jn_reply,        \* per connection: the reply enqueued last, an
                     \* action_failure named by its error ("full", "not_found")
    jn_started       \* Lobby.started: the lobby's thread has been started

joinVars == <<jn_players, jn_pc, jn_in_lobby, jn_reply, jn_started>>

lateVars == <<strikeVars, cueVars, collideVars, dbVars, guardVars, joinVars>>

\* everything but the variables of one of the later subsystems
notStrike == <<chanVars, lobbyVars, quitVars, frameVars, auxVars, cueVars, collideVars, dbVars, guardVars, joinVars>>

notCue == <<chanVars, lobbyVars, quitVars, frameVars, auxVars, strikeVars, collideVars, dbVars, guardVars, joinVars>>

notCollide == <<chanVars, lobbyVars, quitVars, frameVars, auxVars, strikeVars, cueVars, dbVars, guardVars, joinVars>>

notDb == <<chanVars, lobbyVars, quitVars, frameVars, auxVars, strikeVars, cueVars, collideVars, guardVars, joinVars>>

notGuard == <<chanVars, lobbyVars, quitVars, frameVars, auxVars, strikeVars, cueVars, collideVars, dbVars, joinVars>>

notGuardLate == <<strikeVars, cueVars, collideVars, dbVars, joinVars>>

notJoin == <<chanVars, lobbyVars, quitVars, frameVars, auxVars, strikeVars, cueVars, collideVars, dbVars, guardVars>>

vars == <<chanVars, lobbyVars, quitVars, frameVars, auxVars, lateVars>>

\* `while self.in_use:` evaluated right after the loop body: the thread
\* goes on to the blocking call of the next iteration, or leaves the loop
LoopHead(inUse, blockedAt) == IF inUse THEN blockedAt ELSE "done"

(***************************************************************************)
(* BlockedQueue (src/data.py)                                              *)
(***************************************************************************)
\* Queue.enqueue: self.items.append(item)
Enqueue(items, item) == Append(items, item)

\* BlockedQueue.dequeue after the semaphore was acquired: the front item,
\* or None when the list is empty
DequeueItem(items) == IF Len(items) > 0 THEN Head(items) ELSE NoneItem

DequeueRest(items) == IF Len(items) > 0 THEN Tail(items) ELSE items

(***************************************************************************)
(* Connection.__apply_error                                                *)
(***************************************************************************)
\* server: in_use, waiting, send_queue.clear()  (the receive queue is kept;
\* clear() replaces the list and leaves the semaphore as it is)
ServerApplyError(p, who) ==
    /\ in_use' = [in_use EXCEPT ![p] = FALSE]
    /\ waiting' = [waiting EXCEPT ![p] = FALSE]
    /\ send_queue' = [send_queue EXCEPT ![p] = <<>>]
    /\ receive_queue' = receive_queue
    /\ broken' = [broken EXCEPT ![p] = IF @ = "no" THEN who ELSE @]
    /\ UNCHANGED <<send_length, receive_length>>

\* client: in_use, waiting, send_queue.clear(), receive_queue.clear()
ClientApplyError(p, who) ==
    /\ in_use' = [in_use EXCEPT ![p] = FALSE]
    /\ waiting' = [waiting EXCEPT ![p] = FALSE]
    /\ send_queue' = [send_queue EXCEPT ![p] = <<>>]
    /\ receive_queue' = [receive_queue EXCEPT ![p] = <<>>]
    /\ broken' = [broken EXCEPT ![p] = IF @ = "no" THEN who ELSE @]
    /\ UNCHANGED <<send_length, receive_length>>

ApplyError(p, who) ==
    IF p = "server" THEN ServerApplyError(p, who) ELSE ClientApplyError(p, who)


(***************************************************************************)
(* Connection.disconnect: in_use = False and a sentinel on both queues     *)
(***************************************************************************)
\* (called from the processor thread, which has just taken its request:
\* items and length are the receive queue's after that dequeue)
Disconnect(p, items, length) ==
    /\ in_use' = [in_use EXCEPT ![p] = FALSE]
    /\ send_queue' = [send_queue EXCEPT ![p] = Enqueue(@, NoneItem)]
    /\ send_length' = [send_length EXCEPT ![p] = @ + 1]
    /\ receive_queue' = [receive_queue EXCEPT ![p] = Enqueue(items, NoneItem)]
    /\ receive_length' = [receive_length EXCEPT ![p] = length + 1]

(***************************************************************************)
(* Connection.__send_data (the sender thread)                              *)
(***************************************************************************)
\* `data = self.send_queue.dequeue()`: blocks on the semaphore; a None item
\* sends the thread back to the loop head, anything else starts the wait
\* for the previous acknowledgment with time_elapsed = 0, times_resent = 0
SenderDequeue(p) ==
    /\ send_pc[p] = "deq"
    /\ send_length[p] > 0
    /\ send_length' = [send_length EXCEPT ![p] = @ - 1]
    /\ send_queue' = [send_queue EXCEPT ![p] = DequeueRest(@)]
    /\ LET data == DequeueItem(send_queue[p]) IN
         /\ send_data' = [send_data EXCEPT ![p] = data]
         /\ send_pc' = [send_pc EXCEPT ![p] =
                           IF data # NoneItem THEN "wait" ELSE LoopHead(in_use[p], "deq")]
    /\ times_resent' = [times_resent EXCEPT ![p] = 0]
    /\ UNCHANGED <<lateVars, lobbyVars, quitVars, frameVars, auxVars,
                   early_timeouts, in_use, waiting, receive_queue, receive_length, wire,
                   prev_data, recv_pc, proc_pc, submitted, cue_submitted,
                   quit_sent, transmitted, acked, replies, broken>>

\* some thread of either peer can take a step without waiting for a timeout
ThreadsBusy ==
    \E q \in Peers :
        \/ send_pc[q] = "deq" /\ send_length[q] > 0
        \/ send_pc[q] = "send"
        \/ send_pc[q] = "wait" /\ ~waiting[q]
        \/ recv_pc[q] = "recv" /\ wire[q] # <<>>
        \/ proc_pc[q] = "deq" /\ receive_length[q] > 0

\* The resend timeout (5 s on the server, 3 s then 5 s on the client) is
\* long against a thread's step: it passes when every other thread is
\* blocked, and at most MaxEarlyTimeouts times while some thread could
\* still have run (a slow peer or a slow network).
TimeoutPasses == ~ThreadsBusy \/ early_timeouts < MaxEarlyTimeouts

CountTimeout ==
    early_timeouts' = IF ThreadsBusy THEN early_timeouts + 1 ELSE early_timeouts

\* inside `while self.waiting:` the timeout has passed and fewer than three
\* resends were made: prev_data is written again, byte for byte
SenderResend(p) ==
    /\ send_pc[p] = "wait"
    /\ waiting[p]
    /\ times_resent[p] < MaxResend
    /\ TimeoutPasses
    /\ CountTimeout
    /\ times_resent' = [times_resent EXCEPT ![p] = @ + 1]
    /\ wire' = [wire EXCEPT ![Other(p)] = Append(@, prev_data[p])]
    /\ UNCHANGED <<lateVars, lobbyVars, quitVars, frameVars, auxVars,
                   in_use, waiting, send_queue, send_length, receive_queue,
                   receive_length, send_pc, send_data, prev_data, recv_pc,
                   proc_pc, submitted, cue_submitted, quit_sent, transmitted,
                   acked, replies, broken>>

\* server: `if times_resent == 3: self.__apply_error(); return`
ServerGiveUp(p) ==
    /\ p = "server"
    /\ send_pc[p] = "wait"
    /\ waiting[p]
    /\ times_resent[p] = MaxResend
    /\ TimeoutPasses
    /\ CountTimeout
    /\ ApplyError(p, "sender")
    /\ send_pc' = [send_pc EXCEPT ![p] = "done"]
    /\ UNCHANGED <<lateVars, lobbyVars, quitVars, frameVars, auxVars,
                   wire, send_data, prev_data, times_resent, recv_pc, proc_pc,
                   submitted, cue_submitted, quit_sent, transmitted, acked,
                   replies>>

\* client: `if times_resent == 3: self.__apply_error(...); break`: the loop
\* is left and the statements after it (the transmission of `data`) run
ClientGiveUp(p) ==
    /\ p = "client"
    /\ send_pc[p] = "wait"
    /\ waiting[p]
    /\ times_resent[p] = MaxResend
    /\ TimeoutPasses
    /\ CountTimeout
    /\ ApplyError(p, "sender")
    /\ send_pc' = [send_pc EXCEPT ![p] = "send"]
    /\ UNCHANGED <<lateVars, lobbyVars, quitVars, frameVars, auxVars,
                   wire, send_data, prev_data, times_resent, recv_pc, proc_pc,
                   submitted, cue_submitted, quit_sent, transmitted, acked,
                   replies>>

\* whether the sender may pass the `while self.waiting:` loop
MayTransmit(p) ==
    \/ send_pc[p] = "send"
    \/ send_pc[p] = "wait" /\ ~waiting[p]

\* the statements after the wait loop: a command outside the ignore list
\* becomes prev_data and sets waiting, then the frame is written
SenderTransmit(p) ==
    /\ MayTransmit(p)
    /\ LET data == send_data[p]
           significant == data.command \notin IgnoreReceived(p)
       IN
         /\ prev_data' = [prev_data EXCEPT ![p] = IF significant THEN data ELSE @]
         /\ waiting' = [waiting EXCEPT ![p] = IF significant THEN TRUE ELSE @]
         /\ wire' = [wire EXCEPT ![Other(p)] = Append(@, data)]
         /\ transmitted' = [transmitted EXCEPT ![p] =
                               IF significant /\ data.id > 0 THEN @ \cup {data.id} ELSE @]
    /\ send_pc' = [send_pc EXCEPT ![p] = LoopHead(in_use[p], "deq")]
    /\ UNCHANGED <<lateVars, lobbyVars, quitVars, frameVars, auxVars,
                   early_timeouts, in_use, send_queue, send_length, receive_queue,
                   receive_length, send_data, times_resent, recv_pc, proc_pc,
                   submitted, cue_submitted, quit_sent, acked, replies, broken>>

(***************************************************************************)
(* Connection.__receive_data (the receiver thread)                         *)
(***************************************************************************)
\* one frame read and decoded: `received` clears waiting, anything else is
\* enqueued on the receive queue
ReceiverRecv(p) ==
    /\ recv_pc[p] = "recv"
    /\ wire[p] # <<>>
    /\ Head(wire[p]) # MalformedFrame
    /\ LET request == Head(wire[p]) IN
         IF request.command = "received"
         THEN /\ waiting' = [waiting EXCEPT ![p] = FALSE]
              /\ acked' = [acked EXCEPT ![p] = @ \cup {request.id}]
              /\ UNCHANGED <<receive_queue, receive_length>>
         ELSE /\ receive_queue' = [receive_queue EXCEPT ![p] = Enqueue(@, request)]
              /\ receive_length' = [receive_length EXCEPT ![p] = @ + 1]
              /\ UNCHANGED <<waiting, acked>>
    /\ wire' = [wire EXCEPT ![p] = Tail(@)]
    /\ recv_pc' = [recv_pc EXCEPT ![p] = LoopHead(in_use[p], "recv")]
    /\ UNCHANGED <<lateVars, lobbyVars, quitVars, frameVars, auxVars,
                   early_timeouts, in_use, send_queue, send_length, send_pc, send_data,
                   prev_data, times_resent, proc_pc, submitted, cue_submitted,
                   quit_sent, transmitted, replies, broken>>

\* `request = json.loads(item)` raises on a frame that does not decode:
\* the bare `except:` calls __apply_error, and the thread finds in_use false
ReceiverDecodeError(p) ==
    /\ recv_pc[p] = "recv"
    /\ wire[p] # <<>>
    /\ Head(wire[p]) = MalformedFrame
    /\ wire' = [wire EXCEPT ![p] = Tail(@)]
    /\ ApplyError(p, "decode")
    /\ recv_pc' = [recv_pc EXCEPT ![p] = "done"]
    /\ UNCHANGED <<lateVars, lobbyVars, quitVars, frameVars, auxVars,
                   early_timeouts, send_pc, send_data, prev_data, times_resent, proc_pc,
                   submitted, cue_submitted, quit_sent, transmitted, acked,
                   replies>>

\* the try block of the receive loop raises (the connection was reset, or a
\* frame does not decode): `except: self.__apply_error()`.  The thread then
\* finds in_use false at the loop head.
ReceiverError(p) ==
    /\ recv_pc[p] = "recv"
    /\ ApplyError(p, "receiver")
    /\ recv_pc' = [recv_pc EXCEPT ![p] = "done"]
    /\ UNCHANGED <<lateVars, lobbyVars, quitVars, frameVars, auxVars,
                   early_timeouts, wire, send_pc, send_data, prev_data, times_resent, proc_pc,
                   submitted, cue_submitted, quit_sent, transmitted, acked,
                   replies>>

(***************************************************************************)
(* Connection.__process_data (the processor thread)                        *)
(***************************************************************************)
\* `request = self.receive_queue.dequeue()`, then the `received` reply for a
\* command outside the ignore list, then the handler.  The only handler
\* that touches the Connection is the server's "disconnect".  The lookup
\* `self.commands[request["command"]]` raises KeyError for an unknown
\* command and the call raises TypeError for args that do not fit; nothing
\* catches either, so the processor thread ends there.
ProcessorStep(p) ==
    /\ proc_pc[p] = "deq"
    /\ receive_length[p] > 0
    /\ LET request == DequeueItem(receive_queue[p]) IN
         IF request = NoneItem
         THEN /\ receive_queue' = [receive_queue EXCEPT ![p] = DequeueRest(@)]
              /\ receive_length' = [receive_length EXCEPT ![p] = @ - 1]
              /\ UNCHANGED <<in_use, send_queue, send_length, replies>>
         ELSE IF request.command = "disconnect" /\ p = "server"
         THEN /\ Disconnect(p, DequeueRest(receive_queue[p]), receive_length[p] - 1)
              /\ UNCHANGED replies
         ELSE IF request.command \notin IgnoreReceived(p)
         THEN /\ send_queue' = [send_queue EXCEPT ![p] =
                                   Enqueue(@, [command |-> "received", id |-> request.id])]
              /\ send_length' = [send_length EXCEPT ![p] = @ + 1]
              /\ replies' = [replies EXCEPT ![p][request.id] = @ + 1]
              /\ receive_queue' = [receive_queue EXCEPT ![p] = DequeueRest(@)]
              /\ receive_length' = [receive_length EXCEPT ![p] = @ - 1]
              /\ UNCHANGED in_use
         ELSE /\ receive_queue' = [receive_queue EXCEPT ![p] = DequeueRest(@)]
              /\ receive_length' = [receive_length EXCEPT ![p] = @ - 1]
              /\ UNCHANGED <<in_use, send_queue, send_length, replies>>
    /\ proc_pc' = [proc_pc EXCEPT ![p] =
                       IF DequeueItem(receive_queue[p]).command \in BadCommands
                       THEN "dead"
                       ELSE LoopHead(in_use'[p], "deq")]
    /\ UNCHANGED <<lateVars, lobbyVars, quitVars, frameVars, auxVars,
                   early_timeouts, waiting, wire, send_pc, send_data, prev_data, times_resent,
                   recv_pc, submitted, cue_submitted, quit_sent, transmitted,
                   acked, broken>>

(***************************************************************************)
(* The applications: the Lobby (send_players) and the client's game and    *)
(* menu enqueue on the Connection's send queue                             *)
(***************************************************************************)
\* a significant message is submitted
AppSend(p) ==
    /\ submitted["server"] + submitted["client"] < MaxMsgs
    /\ submitted' = [submitted EXCEPT ![p] = @ + 1]
    /\ send_queue' = [send_queue EXCEPT ![p] =
                         Enqueue(@, [command |-> SigCommand(p), id |-> submitted[p] + 1])]
    /\ send_length' = [send_length EXCEPT ![p] = @ + 1]
    /\ UNCHANGED <<lateVars, lobbyVars, quitVars, frameVars, auxVars,
                   early_timeouts, in_use, waiting, receive_queue, receive_length, wire,
                   send_pc, send_data, prev_data, times_resent, recv_pc,
                   proc_pc, cue_submitted, quit_sent, transmitted, acked,
                   replies, broken>>

\* the peer's application submits a message the receiving side cannot
\* dispatch; it travels like any significant message
AppSendBad(p) ==
    /\ submitted["server"] + submitted["client"] < MaxMsgs
    /\ submitted' = [submitted EXCEPT ![p] = @ + 1]
    /\ \E bad \in BadCommands :
          send_queue' = [send_queue EXCEPT ![p] =
                            Enqueue(@, [command |-> bad, id |-> submitted[p] + 1])]
    /\ send_length' = [send_length EXCEPT ![p] = @ + 1]
    /\ UNCHANGED <<lateVars, lobbyVars, quitVars, frameVars, auxVars,
                   early_timeouts, in_use, waiting, receive_queue, receive_length, wire,
                   send_pc, send_data, prev_data, times_resent, recv_pc,
                   proc_pc, cue_submitted, quit_sent, transmitted, acked,
                   replies, broken>>

\* bytes that end with `#` but are not the JSON of a message arrive on
\* p's socket (at most once: the receiver leaves its loop on them)
MalformedArrives(p) ==
    /\ in_use[p]
    /\ broken[p] = "no"
    /\ \A i \in DOMAIN wire[p] : wire[p][i] # MalformedFrame
    /\ wire' = [wire EXCEPT ![p] = Append(@, MalformedFrame)]
    /\ UNCHANGED <<lateVars, lobbyVars, quitVars, frameVars, auxVars,
                   early_timeouts, in_use, waiting, send_queue, send_length,
                   receive_queue, receive_length, send_pc, send_data, prev_data,
                   times_resent, recv_pc, proc_pc, submitted, cue_submitted,
                   quit_sent, transmitted, acked, replies, broken>>

\* a cue-telemetry message is submitted
AppSendCue(p) ==
    /\ cue_submitted["server"] + cue_submitted["client"] < MaxCue
    /\ cue_submitted' = [cue_submitted EXCEPT ![p] = @ + 1]
    /\ send_queue' = [send_queue EXCEPT ![p] =
                         Enqueue(@, [command |-> CueCommand(p), id |-> 0])]
    /\ send_length' = [send_length EXCEPT ![p] = @ + 1]
    /\ UNCHANGED <<lateVars, lobbyVars, quitVars, frameVars, auxVars,
                   early_timeouts, in_use, waiting, receive_queue, receive_length, wire,
                   send_pc, send_data, prev_data, times_resent, recv_pc,
                   proc_pc, submitted, quit_sent, transmitted, acked, replies,
                   broken>>

\* Menu_System.__quit: the client enqueues "disconnect" while in use
ClientQuit ==
    /\ ~quit_sent
    /\ in_use["client"]
    /\ quit_sent' = TRUE
    /\ send_queue' = [send_queue EXCEPT !["client"] =
                         Enqueue(@, [command |-> "disconnect", id |-> QuitId])]
    /\ send_length' = [send_length EXCEPT !["client"] = @ + 1]
    /\ UNCHANGED <<lateVars, lobbyVars, quitVars, frameVars, auxVars,
                   early_timeouts, in_use, waiting, receive_queue, receive_length, wire,
                   send_pc, send_data, prev_data, times_resent, recv_pc,
                   proc_pc, submitted, cue_submitted, transmitted, acked,
                   replies, broken>>

(***************************************************************************)
(* The chunk loops of Connection.__send_data, on their own: one frame is   *)
(* written, and then written again by the resend loop                      *)
(***************************************************************************)
\* the shortest frame: json.dumps({"command": ""}) + "#"
MinFrameLen == 16

\* jsondata = json.dumps(data) + "#": n characters, the last one the
\* terminator (0); the k-th character of the JSON text is written k
Frame(n) == [k \in 1..n |-> IF k = n THEN 0 ELSE k]

\* the Python slice text[i:i+ChunkSize] (i counts from 0; the slice stops
\* at the end of the text)
Slice(text, i) ==
    SubSeq(text, i + 1, IF i + ChunkSize < Len(text) THEN i + ChunkSize ELSE Len(text))

\* one iteration of `for i in range(0, len(jsondata) - 1, 1024)` (or of the
\* same loop over prev_data): the slice is encoded and sent
WriteChunk ==
    /\ chunk_pc \in {"first", "resend"}
    /\ chunk_i < Len(frame) - 1
    /\ written' = written \o Slice(frame, chunk_i)
    /\ chunk_i' = chunk_i + ChunkSize
    /\ UNCHANGED <<lateVars, chanVars, lobbyVars, quitVars, auxVars, frame, chunk_pc>>

\* range() is exhausted: i has reached len(jsondata) - 1 or gone past it
EndLoop ==
    /\ chunk_pc \in {"first", "resend"}
    /\ chunk_i >= Len(frame) - 1
    /\ chunk_pc' = IF chunk_pc = "first" THEN "sent" ELSE "done"
    /\ UNCHANGED <<lateVars, chanVars, lobbyVars, quitVars, auxVars, frame, chunk_i, written>>

\* no acknowledgment came in time: the resend loop writes prev_data, which
\* is the frame just sent
Retransmit ==
    /\ chunk_pc = "sent"
    /\ chunk_pc' = "resend"
    /\ chunk_i' = 0
    /\ written' = <<>>
    /\ UNCHANGED <<lateVars, chanVars, lobbyVars, quitVars, auxVars, frame>>

\* no frame is being written
SenderIdle ==
    /\ frame = <<>>
    /\ chunk_i = 0
    /\ written = <<>>
    /\ chunk_pc = "done"

(***************************************************************************)
(* The receiver thread on one byte stream (Connection.__receive_data of    *)
(* src/server.py and src/client.py).  A message is a command and one       *)
(* string argument; its text is a sequence of characters.                  *)
(***************************************************************************)
\* characters a string argument is made of: names and passwords may hold
\* the symbols of Characters.symbols (src/data.py), `#` among them
ArgChars == {"a", "#"}

RECURSIVE Strings(_)
\* the strings over ArgChars of length n
Strings(n) ==
    IF n = 0 THEN {<<>>}
    ELSE {Append(t, c) : t \in Strings(n - 1), c \in ArgChars}

ArgStrings == UNION {Strings(n) : n \in 0..MaxArgLen}

\* the messages of the stream: the acknowledgment, which has no argument,
\* and one kind of request with every argument
StreamMessages ==
    {[command |-> "received", arg |-> <<>>]} \cup
        [command : {"login"}, arg : ArgStrings]

\* json.dumps(data): the braces, the command, and the argument's characters
\* as they are (json.dumps escapes quotes and backslashes only)
Dumps(m) == <<"{", m.command>> \o m.arg \o <<"}">>

\* json.loads(item) returns a value (it raises on any other text)
Loadable(item) ==
    /\ Len(item) >= 3
    /\ item[1] = "{"
    /\ item[2] \in {"received", "login"}
    /\ item[Len(item)] = "}"
    /\ \A k \in 3..(Len(item) - 1) : item[k] \in ArgChars

\* json.loads(item) of a Loadable item
Loads(item) == [command |-> item[2], arg |-> SubSeq(item, 3, Len(item) - 1)]

RECURSIVE SplitFrames(_, _)
\* full_data.split("#")[:-1] of a text that ends with "#"; cur is the item
\* being collected
SplitFrames(text, cur) ==
    IF text = <<>> THEN <<>>
    ELSE IF Head(text) = "#" THEN <<cur>> \o SplitFrames(Tail(text), <<>>)
    ELSE SplitFrames(Tail(text), Append(cur, Head(text)))

RECURSIVE FirstBad(_, _)
\* index of the first item json.loads raises on, or Len(items) + 1
FirstBad(items, k) ==
    IF k > Len(items) \/ ~Loadable(items[k]) THEN k ELSE FirstBad(items, k + 1)

RECURSIVE Requests(_)
\* the requests among the messages, in order (`received` is not enqueued)
Requests(msgs) ==
    IF msgs = <<>> THEN <<>>
    ELSE IF Head(msgs).command = "received" THEN Requests(Tail(msgs))
    ELSE <<Head(msgs)>> \o Requests(Tail(msgs))

\* the `for item in data[:-1]` loop over the items before the first one
\* that json.loads raises on
LoadedItems(items) == [k \in 1..(FirstBad(items, 1) - 1) |-> Loads(items[k])]

\* the sending peer's sender writes json.dumps(data) + "#" to the socket
StreamSend(m) ==
    /\ Len(tx_msgs) < MaxStreamMsgs
    /\ tx_msgs' = Append(tx_msgs, m)
    /\ stream' = stream \o Dumps(m) \o <<"#">>
    /\ UNCHANGED <<lateVars, chanVars, lobbyVars, quitVars, frameVars, newLobbyVars, queueVars, loginVars, tableVars, ballVars,
                   full_data, delivered, rx_waiting, rx_error>>

\* one recv of n characters by the receiver: the text is kept until it
\* ends with "#", then split, and each item decoded and handed on; an
\* exception of json.loads ends the loop in __apply_error
StreamRecv ==
    /\ ~rx_error
    /\ \E n \in 1..Len(stream) :
        /\ n <= RecvSize
        /\ stream' = SubSeq(stream, n + 1, Len(stream))
        /\ LET text == full_data \o SubSeq(stream, 1, n)
               items == SplitFrames(text, <<>>)
               loaded == LoadedItems(items)
           IN  IF text[Len(text)] # "#"
               THEN /\ full_data' = text
                    /\ UNCHANGED <<delivered, rx_waiting, rx_error>>
               ELSE /\ full_data' = <<>>
                    /\ delivered' = delivered \o Requests(loaded)
                    /\ rx_waiting' =
                           IF \E k \in 1..Len(loaded) :
                                  loaded[k].command = "received"
                           THEN FALSE ELSE rx_waiting
                    /\ rx_error' = (FirstBad(items, 1) <= Len(items))
    /\ UNCHANGED <<lateVars, chanVars, lobbyVars, quitVars, frameVars, newLobbyVars, queueVars, loginVars, tableVars, ballVars, tx_msgs>>

\* nothing written to the stream yet; the receiving Connection may be
\* waiting for an acknowledgment of its own
StreamIdle ==
    /\ tx_msgs = <<>>
    /\ stream = <<>>
    /\ full_data = <<>>
    /\ delivered = <<>>
    /\ rx_waiting \in BOOLEAN
    /\ rx_error = FALSE

(***************************************************************************)
(* Pocket resolution of the Table (src/simulation.py), with the balls told *)
(* apart.  Where the balls roll is not modelled: a tick ends with any set  *)
(* of moving balls inside pockets.                                         *)
(***************************************************************************)
\* the cue ball (number None in the program)
CueBall == 0

\* the balls in the order __construct_objects adds them: the numbered balls
\* (the 8-ball is one of them), then the cue ball
TableRack == [k \in 1..(TableObjectBalls + 1) |->
                 IF k <= TableObjectBalls THEN k ELSE CueBall]

\* del self.balls[i] with i counted from 1
DeleteAt(bs, i) == SubSeq(bs, 1, i - 1) \o SubSeq(bs, i + 1, Len(bs))

\* a pocket resolution that takes the cue ball off the list as well
BallsAfterPocketAll(bs, k, cf, ball) == DeleteAt(bs, k - cf)

\* the live list after `ball`, met at iteration k with change_factor cf,
\* was found in a pocket: `del self.balls[index - change_factor]` unless it
\* is the cue ball
BallsAfterPocket(bs, k, cf, ball) ==
    IF ball # CueBall THEN DeleteAt(bs, k - cf) ELSE bs

RECURSIVE ResolvePockets(_, _, _, _, _, _)
\* Table.resolve_pockets from iteration k on (k counts from 1): the list
\* iterator yields the k-th element of the list as it is now; inPocket are
\* the moving balls whose centre a pocket contains
ResolvePockets(k, bs, pk, cf, hold, inPocket) ==
    IF k > Len(bs) THEN [balls |-> bs, pocketed |-> pk, holding |-> hold]
    ELSE IF bs[k] \in inPocket /\ ~(bs[k] = CueBall /\ hold)
         THEN ResolvePockets(k + 1, BallsAfterPocket(bs, k, cf, bs[k]),
                             Append(pk, bs[k]),
                             IF bs[k] # CueBall THEN cf + 1 ELSE cf,
                             hold \/ bs[k] = CueBall, inPocket)
         ELSE ResolvePockets(k + 1, bs, pk, cf, hold, inPocket)

\* the numbers in a list
Range(seq) == {seq[k] : k \in 1..Len(seq)}

\* how many entries of a list are the cue ball
RECURSIVE CueCount(_)
CueCount(seq) ==
    IF seq = <<>> THEN 0
    ELSE (IF Head(seq) = CueBall THEN 1 ELSE 0) + CueCount(Tail(seq))

\* one Table.update: the balls move, then resolve_pockets; a held cue ball
\* has velocity zero and is not looked at
TableUpdate ==
    \E inPocket \in SUBSET Range(tb_balls) :
        /\ ~(CueBall \in inPocket /\ tb_holding)
        /\ CueBall \in inPocket => tb_cue_session < MaxCuePockets
        /\ LET r == ResolvePockets(1, tb_balls, tb_pocketed, 0, tb_holding,
                                   inPocket)
               added == SubSeq(r.pocketed, Len(tb_pocketed) + 1,
                               Len(r.pocketed))
           IN  /\ tb_balls' = r.balls
               /\ tb_pocketed' = r.pocketed
               /\ tb_holding' = r.holding
               /\ tb_session' = tb_session + Len(added)
               /\ tb_cue_session' = tb_cue_session + CueCount(added)
        /\ UNCHANGED <<lateVars, chanVars, lobbyVars, quitVars, frameVars, newLobbyVars, queueVars, loginVars, streamVars, ballVars>>

\* Lobby.__place_ball: the ball in hand is put back on the table
TablePlaceBall ==
    /\ tb_holding
    /\ tb_holding' = FALSE
    /\ UNCHANGED <<lateVars, chanVars, lobbyVars, quitVars, frameVars, newLobbyVars, queueVars, loginVars, streamVars, ballVars,
                   tb_balls, tb_pocketed, tb_session, tb_cue_session>>

\* Table.reset_counts, called when a shot has been evaluated
TableResetCounts ==
    /\ tb_pocketed # <<>>
    /\ tb_pocketed' = <<>>
    /\ UNCHANGED <<lateVars, chanVars, lobbyVars, quitVars, frameVars, newLobbyVars, queueVars, loginVars, streamVars, ballVars,
                   tb_balls, tb_holding, tb_session, tb_cue_session>>

\* the Table as __construct_objects leaves it
TableIdle ==
    /\ tb_balls = TableRack
    /\ tb_pocketed = <<>>
    /\ tb_holding = FALSE
    /\ tb_session = 0
    /\ tb_cue_session = 0

(***************************************************************************)
(* One Ball between the left and the right rail (Ball.update_physics,      *)
(* Ball.get_collisions, Ball.collide_with_line and                         *)
(* Ball.resolve_bounding_box_collision of src/simulation.py), reduced to   *)
(* the x axis: the ball keeps the y of the middle of the two rails, so the *)
(* ends of the rails and the pockets are out of its reach.  Lengths are    *)
(* whole units; the rails are at 0 (the Table's pos) and TableLength (its  *)
(* upper_pos).                                                             *)
(***************************************************************************)
Abs(n) == IF n < 0 THEN -n ELSE n

Sign(n) == IF n < 0 THEN -1 ELSE IF n > 0 THEN 1 ELSE 0

\* the x coordinates of the rails, in the order of Table.rails
RailsX == <<0, TableLength>>

\* Ball.update_physics: friction and air resistance lower the speed by
\* `loss`, and never turn the ball round
Slowed(v, loss) == IF Abs(v) <= loss THEN 0 ELSE v - Sign(v) * loss

\* the velocity after collide_with_line: the component along the normal of
\* the line is reversed and scaled by table_coeff_of_rest (0.6)
Rebound(v) == -Sign(v) * ((Abs(v) * 3) \div 5)

\* circle_line_collision_check of the ball at x with the rail at rail
TouchesRail(x, rail) == Abs(x - rail) <= BallRadius

\* new_pos.x after collide_with_line with the rail at rail: the normal of
\* both rails is (-1, 0), so upper_point is x - radius and lower_point is
\* x + radius; the overlap of lower_point is taken when the overlap of
\* upper_point does not point against the velocity
CollideWithLine(x, v, rail) ==
    LET upper == rail - (x - BallRadius)
        lower == rail - (x + BallRadius)
        overlap == IF upper * v >= 0 THEN lower ELSE upper
    IN  x + 2 * overlap

\* the `for rail in rails` loop of get_collisions from rail k on
RECURSIVE CollideRails(_, _)
CollideRails(b, k) ==
    IF k > Len(RailsX) THEN b
    ELSE IF TouchesRail(b.x, RailsX[k])
         THEN CollideRails([x |-> CollideWithLine(b.x, b.v, RailsX[k]),
                            v |-> Rebound(b.v), hit_rail |-> TRUE], k + 1)
         ELSE CollideRails(b, k + 1)

\* resolve_bounding_box_collision(self.pos, self.upper_pos), x part
BoundingBox(b) ==
    IF 0 < b.x /\ b.x < TableLength THEN b
    ELSE LET overlap == b.x - (IF 0 >= b.x THEN 0 ELSE TableLength)
         IN  [x |-> b.x - overlap * 2, v |-> Rebound(b.v), hit_rail |-> TRUE]

\* get_collisions without other balls
GetCollisions(b) ==
    LET railed == CollideRails(b, 1)
    IN  IF railed.hit_rail THEN railed ELSE BoundingBox(railed)

\* the ball at rest is struck: apply_force and the physics of the impulse
\* give it a velocity
BallStrike ==
    /\ bv = 0
    /\ bv' \in (-MaxSpeed..MaxSpeed) \ {0}
    /\ UNCHANGED <<lateVars, chanVars, lobbyVars, quitVars, frameVars, newLobbyVars, queueVars, loginVars, streamVars,
                   tableVars, bx>>

\* one Table.update with the ball in motion: update_physics, then
\* get_collisions if it still moves, then update_position
BallUpdate ==
    /\ bv # 0
    /\ \E loss \in {0, 1} :
        LET v1 == Slowed(bv, loss)
            moved == [x |-> bx + v1, v |-> v1, hit_rail |-> FALSE]
            after == IF v1 # 0 THEN GetCollisions(moved) ELSE moved
        IN  /\ bx' = after.x
            /\ bv' = after.v
    /\ UNCHANGED <<lateVars, chanVars, lobbyVars, quitVars, frameVars, newLobbyVars, queueVars, loginVars, streamVars,
                   tableVars>>

\* a ball at rest on the table, clear of the rails
BallIdle ==
    /\ bx \in BallRadius..(TableLength - BallRadius)
    /\ bv = 0

(***************************************************************************)
(* The Server's login on one Connection (Server.__login_attempt and        *)
(* Connection.logout of src/server.py).  There is one account, UserID 1.   *)
(***************************************************************************)
\* no login command handled yet
NoLogin == [locked |-> FALSE, reply |-> "none", logged_in |-> FALSE]

\* Server.__login_attempt; the message and the database decide whether the
\* username is known and the password right, the other Connections whether
\* the account is in use elsewhere
LoginAttempt ==
    \E known, right, elsewhere \in BOOLEAN :
        LET online == elsewhere \/ login_id = 1
            refused == \/ failed_logins >= MaxFailedLogins
                       \/ ~known
                       \/ ~right
                       \/ online
            counted == /\ failed_logins < MaxFailedLogins
                       /\ known
                       /\ ~right
        IN  /\ failed_logins' =
                   IF counted THEN failed_logins + 1 ELSE failed_logins
            /\ login_id' = IF refused THEN login_id ELSE 1
            /\ locked_out' =
                   (locked_out \/ failed_logins' >= MaxFailedLogins)
            /\ last_login' =
                   [locked |-> locked_out,
                    reply |-> IF refused THEN "action_failure"
                              ELSE "login_success",
                    logged_in |-> ~refused]
            /\ UNCHANGED <<lateVars, chanVars, lobbyVars, quitVars, frameVars, newLobbyVars, queueVars,
                           streamVars, tableVars, ballVars, receive_cue_data,
                           can_start>>

\* Connection.logout, a command of every Connection, logged in or not
Logout ==
    /\ login_id' = 0
    /\ failed_logins' = 0
    /\ UNCHANGED <<lateVars, chanVars, lobbyVars, quitVars, frameVars, newLobbyVars, queueVars, streamVars,
                   tableVars, ballVars, receive_cue_data, can_start,
                   locked_out, last_login>>

\* Connection.__change_reception_state, one of the other commands
ChangeReceptionState ==
    /\ \E receive_state \in BOOLEAN : receive_cue_data' = receive_state
    /\ UNCHANGED <<lateVars, chanVars, lobbyVars, quitVars, frameVars, newLobbyVars, queueVars, streamVars,
                   tableVars, ballVars, failed_logins, login_id, can_start,
                   locked_out, last_login>>

\* Connection.__ready, another of the other commands
Ready ==
    /\ can_start' = TRUE
    /\ UNCHANGED <<lateVars, chanVars, lobbyVars, quitVars, frameVars, newLobbyVars, queueVars, streamVars,
                   tableVars, ballVars, failed_logins, login_id,
                   receive_cue_data, locked_out, last_login>>

\* a Connection as its constructor leaves it
LoginIdle ==
    /\ failed_logins = 0
    /\ login_id = 0
    /\ receive_cue_data = TRUE
    /\ can_start = FALSE
    /\ locked_out = FALSE
    /\ last_login = NoLogin

(***************************************************************************)
(* A Lobby before its game starts (Server.__join_existing_lobby,           *)
(* Server.__manage_lobbies, Lobby.start, Lobby.player_quit and             *)
(* Lobby.end_game of src/server.py).                                       *)
(***************************************************************************)
\* __create_new_lobby and __join_existing_lobby: add_player while the
\* Lobby has fewer than two players
JoinLobby ==
    /\ ~lb_removed
    /\ lb_players < 2
    /\ lb_players' = lb_players + 1
    /\ lb_in_lobby' = [lb_in_lobby EXCEPT ![lb_players + 1] = TRUE]
    /\ UNCHANGED <<lateVars, chanVars, lobbyVars, quitVars, frameVars, streamVars,
                   tableVars, ballVars, loginVars, queueVars, lb_started, lb_can_start,
                   lb_victor, lb_to_delete, lb_removed, lb_recorded,
                   lb_early_quit, connVars>>

\* the `ready` command of a player in the Lobby
PlayerReady(p) ==
    /\ p <= lb_players
    /\ lb_in_lobby[p]
    /\ lb_in_use[p]
    /\ lb_can_start' = [lb_can_start EXCEPT ![p] = TRUE]
    /\ UNCHANGED <<lateVars, chanVars, lobbyVars, quitVars, frameVars, streamVars,
                   tableVars, ballVars, loginVars, queueVars, lb_players, lb_started,
                   lb_in_lobby, lb_victor, lb_to_delete, lb_removed,
                   lb_recorded, lb_early_quit, connVars>>

\* Server.__manage_lobbies on this Lobby: the start thread is created when
\* two players are in, and a Lobby flagged to_delete is removed, with its
\* statistics recorded if it has a victor
ManageNewLobby ==
    /\ ~lb_removed
    /\ (lb_started = 0 /\ lb_players = 2) \/ lb_to_delete
    /\ lb_started' = IF lb_started = 0 /\ lb_players = 2 THEN 1 ELSE lb_started
    /\ lb_removed' = lb_to_delete
    /\ lb_recorded' = (lb_to_delete /\ lb_victor # 0)
    /\ UNCHANGED <<lateVars, chanVars, lobbyVars, quitVars, frameVars, streamVars,
                   tableVars, ballVars, loginVars, queueVars, lb_players, lb_can_start,
                   lb_in_lobby, lb_victor, lb_to_delete, lb_early_quit,
                   connVars>>

\* Lobby.start leaves its wait for both players: the game starts
GameStarts ==
    /\ lb_started = 1
    /\ lb_can_start[1] /\ lb_can_start[2]
    /\ lb_started' = 2
    /\ UNCHANGED <<lateVars, chanVars, lobbyVars, quitVars, frameVars, streamVars,
                   tableVars, ballVars, loginVars, queueVars, lb_players, lb_can_start,
                   lb_in_lobby, lb_victor, lb_to_delete, lb_removed,
                   lb_recorded, lb_early_quit, connVars>>

\* the victor player_quit passes to end_game when p quits (0 for None)
EarlyQuitVictor(p) ==
    IF lb_players >= 2 \/ lb_started > 1 THEN (IF p = 2 THEN 1 ELSE 2) ELSE 0

\* Lobby.player_quit(p) and the end_game it calls; inUse is in_use of the
\* Connections at the call
EarlyPlayerQuit(p, inUse) ==
    /\ lb_victor' = IF EarlyQuitVictor(p) # 0 THEN EarlyQuitVictor(p)
                    ELSE lb_victor
    /\ lb_in_lobby' = [q \in Players |-> FALSE]
    /\ lb_can_start' = [q \in Players |-> FALSE]
    /\ lb_can_delete' = [q \in Players |->
                            IF q <= lb_players /\ ~inUse[q] THEN TRUE
                            ELSE lb_can_delete[q]]
    /\ lb_to_delete' = TRUE
    /\ lb_early_quit' = (lb_early_quit \/ lb_started <= 1)

\* the `quit` command of a player in the Lobby
PlayerLeaves(p) ==
    /\ ~lb_removed
    /\ p <= lb_players
    /\ lb_in_lobby[p]
    /\ lb_in_use[p]
    /\ EarlyPlayerQuit(p, lb_in_use)
    /\ UNCHANGED <<lateVars, chanVars, lobbyVars, quitVars, frameVars, streamVars,
                   tableVars, ballVars, loginVars, queueVars, lb_players, lb_started,
                   lb_removed, lb_recorded, lb_in_use, lb_deleted>>

\* the Connection of p breaks: __apply_error
ConnectionBreaks(p) ==
    /\ p <= lb_players
    /\ lb_in_use[p]
    /\ lb_in_use' = [lb_in_use EXCEPT ![p] = FALSE]
    /\ lb_can_delete' = [lb_can_delete EXCEPT ![p] = ~lb_in_lobby[p]]
    /\ UNCHANGED <<lateVars, chanVars, lobbyVars, quitVars, frameVars, streamVars,
                   tableVars, ballVars, loginVars, queueVars, lb_players, lb_started,
                   lb_can_start, lb_in_lobby, lb_victor, lb_to_delete,
                   lb_removed, lb_recorded, lb_early_quit, lb_deleted>>

\* Server.__manage_players on the Connection of p, which is out of use and
\* still in the Lobby: player_quit, then the Connection is removed
ManageLeaver(p) ==
    /\ p <= lb_players
    /\ ~lb_in_use[p]
    /\ ~lb_deleted[p]
    /\ lb_in_lobby[p]
    /\ ~lb_removed
    /\ EarlyPlayerQuit(p, lb_in_use)
    /\ lb_deleted' = [lb_deleted EXCEPT ![p] = TRUE]
    /\ UNCHANGED <<lateVars, chanVars, lobbyVars, quitVars, frameVars, streamVars,
                   tableVars, ballVars, loginVars, queueVars, lb_players, lb_started,
                   lb_removed, lb_recorded, lb_in_use>>

\* Server.__manage_players on a Connection out of use and out of the Lobby
ManageGone(p) ==
    /\ p <= lb_players
    /\ ~lb_in_use[p]
    /\ ~lb_deleted[p]
    /\ ~lb_in_lobby[p]
    /\ lb_can_delete[p]
    /\ lb_deleted' = [lb_deleted EXCEPT ![p] = TRUE]
    /\ UNCHANGED <<lateVars, chanVars, lobbyVars, quitVars, frameVars, streamVars,
                   tableVars, ballVars, loginVars, queueVars, lb_players, lb_started,
                   lb_can_start, lb_in_lobby, lb_victor, lb_to_delete,
                   lb_removed, lb_recorded, lb_early_quit, lb_in_use,
                   lb_can_delete>>

\* a Lobby as its constructor leaves it
NewLobbyIdle ==
    /\ lb_players = 0
    /\ lb_started = 0
    /\ lb_can_start = [q \in Players |-> FALSE]
    /\ lb_in_lobby = [q \in Players |-> FALSE]
    /\ lb_in_use = [q \in Players |-> TRUE]
    /\ lb_can_delete = [q \in Players |-> FALSE]
    /\ lb_deleted = [q \in Players |-> FALSE]
    /\ lb_victor = 0
    /\ lb_to_delete = FALSE
    /\ lb_removed = FALSE
    /\ lb_recorded = FALSE
    /\ lb_early_quit = FALSE

(***************************************************************************)
(* The Queue of src/data.py.  None is modelled by 0, the items by 1, 2, .. *)
(***************************************************************************)
\* the items put on the queue
QueueItems == 1..MaxQueueItem

\* what Queue.dequeue returns on a list
DequeueResult(list) == IF Len(list) = 0 THEN 0 ELSE list[1]

\* what Queue.peek returns on a list: None, or `self.items[-1]`
PeekResult(list) == IF Len(list) = 0 THEN 0 ELSE list[Len(list)]

\* no peek made yet
NoPeek == [done |-> FALSE, result |-> 0, before |-> <<>>, after |-> <<>>]

\* Queue.enqueue(item)
QueueEnqueue ==
    /\ Len(queue_items) < MaxQueueLen
    /\ \E item \in QueueItems : queue_items' = Append(queue_items, item)
    /\ UNCHANGED <<lateVars, chanVars, lobbyVars, quitVars, frameVars, streamVars,
                   tableVars, ballVars, loginVars, newLobbyVars, last_peek>>

\* Queue.dequeue() on a queue with items: self.items.pop(0)
QueueDequeue ==
    /\ Len(queue_items) > 0
    /\ queue_items' = Tail(queue_items)
    /\ UNCHANGED <<lateVars, chanVars, lobbyVars, quitVars, frameVars, streamVars,
                   tableVars, ballVars, loginVars, newLobbyVars, last_peek>>

\* Queue.peek()
QueuePeek ==
    /\ last_peek' = [done |-> TRUE, result |-> PeekResult(queue_items),
                     before |-> queue_items, after |-> queue_items]
    /\ UNCHANGED <<lateVars, chanVars, lobbyVars, quitVars, frameVars, streamVars,
                   tableVars, ballVars, loginVars, newLobbyVars, queue_items>>

\* Queue.clear() on a queue with items
QueueClear ==
    /\ Len(queue_items) > 0
    /\ queue_items' = <<>>
    /\ UNCHANGED <<lateVars, chanVars, lobbyVars, quitVars, frameVars, streamVars,
                   tableVars, ballVars, loginVars, newLobbyVars, last_peek>>

\* an empty Queue
QueueIdle ==
    /\ queue_items = <<>>
    /\ last_peek = NoPeek

(***************************************************************************)
(* A strike and the Table's in_motion flag (Ball.apply_force and           *)
(* Table.update of src/simulation.py) for the one ball that is struck,     *)
(* with every other ball at rest.  The impulse of a stored force is spent  *)
(* in the first update (time_of_cue_impact is shorter than a tick) and     *)
(* gives one unit of speed per unit of force; rolling friction takes one   *)
(* unit of speed per update.                                               *)
(***************************************************************************)
\* the test of apply_force that makes it return without storing the force
TooWeak(vel, force) == vel = 0 /\ force <= StaticResistance

\* Table.update without the `elif ball.attempted_force_application` branch
CountsAsMovingNoAttempt(vel, force, attempted) == vel # 0 \/ force # 0

\* Table.update: whether the ball makes the table count as in motion
CountsAsMoving(vel, force, attempted) == vel # 0 \/ force # 0 \/ attempted

\* no apply_force yet
NoStrike == [weak |-> FALSE, vel |-> 0, pos |-> 0, stored |-> 0]

\* Ball.apply_force, called by Lobby.__hit_ball for a shot that a client
\* makes when its table is at rest and its turn has started
ApplyForce ==
    /\ sk_strikes < MaxStrikes
    /\ ~CountsAsMoving(sk_vel, sk_force, sk_attempted)
    /\ ~sk_in_motion
    /\ \E force \in 0..MaxForce :
           /\ sk_attempted' = TRUE
           /\ sk_force' = IF TooWeak(sk_vel, force) THEN sk_force ELSE force
           /\ sk_last' = [weak |-> TooWeak(sk_vel, force), vel |-> sk_vel,
                          pos |-> sk_pos, stored |-> sk_force']
    /\ sk_strikes' = sk_strikes + 1
    /\ sk_updates' = 0
    /\ sk_edges' = 0
    /\ UNCHANGED <<notStrike, sk_vel, sk_pos, sk_in_motion, sk_prev>>

\* one Table.update: previously_in_motion, the loop over the balls with
\* update_physics for a ball that moves or has a force stored, then
\* update_position
StrikeUpdate ==
    /\ sk_prev' = sk_in_motion
    /\ sk_in_motion' = CountsAsMoving(sk_vel, sk_force, sk_attempted)
    /\ IF sk_vel # 0 \/ sk_force # 0
       THEN /\ sk_vel' = Slowed(sk_vel + sk_force, 1)
            /\ sk_force' = 0
            /\ sk_pos' = sk_pos + sk_vel'
            /\ UNCHANGED sk_attempted
       ELSE /\ sk_attempted' = FALSE
            /\ UNCHANGED <<sk_vel, sk_force, sk_pos>>
    /\ sk_updates' = IF sk_updates < 2 THEN sk_updates + 1 ELSE 2
    /\ sk_edges' = IF sk_in_motion /\ ~sk_in_motion' /\ sk_edges < 2
                   THEN sk_edges + 1 ELSE sk_edges
    /\ UNCHANGED <<notStrike, sk_strikes, sk_last>>

\* Ball.__init__ and Table.__init__
StrikeIdle ==
    /\ sk_vel = 0
    /\ sk_pos = 0
    /\ sk_force = 0
    /\ sk_attempted = FALSE
    /\ sk_in_motion = FALSE
    /\ sk_prev = FALSE
    /\ sk_strikes = 0
    /\ sk_last = NoStrike
    /\ sk_updates = 0
    /\ sk_edges = 0

(***************************************************************************)
(* Cue telemetry: NetworkedGame._send_cue_data (src/client.py) of the      *)
(* client whose turn it is, and Lobby.__update_cue_state and               *)
(* Lobby.__send_cue_data (src/server.py) towards the other player, whose   *)
(* Connection holds receive_cue_data.  The table is at rest and the update *)
(* interval has passed whenever a sender looks at the cue.                 *)
(***************************************************************************)
\* NetworkedGame._send_cue_data: the cue is at cue_data
ClientSendCueData ==
    /\ Len(cc_log) < MaxCueSends
    /\ \E cue_data \in 1..MaxCueValue :
           IF cue_data # cc_prev
           THEN /\ cc_log' = Append(cc_log, cue_data)
                /\ cc_prev' = cue_data
           ELSE UNCHANGED <<cc_log, cc_prev>>
    /\ UNCHANGED <<notCue, cd_data, cd_prev, cd_log>>

\* Lobby.__update_cue_state, the handler of update_server_cue_position
UpdateCueState ==
    /\ \E new_data \in 1..MaxCueValue : cd_data' = new_data
    /\ UNCHANGED <<notCue, cd_prev, cd_log, cc_prev, cc_log>>

\* Lobby.__send_cue_data
SendCueData ==
    /\ Len(cd_log) < MaxCueSends
    /\ IF cd_data # cd_prev
       THEN /\ cd_prev' = cd_data
            /\ cd_log' = IF receive_cue_data THEN Append(cd_log, cd_data)
                         ELSE cd_log
       ELSE UNCHANGED <<cd_prev, cd_log>>
    /\ UNCHANGED <<notCue, cd_data, cc_prev, cc_log>>

\* Lobby.__init__ and NetworkedGame.__init__
CueIdle ==
    /\ cd_data = 0
    /\ cd_prev = 0
    /\ cd_log = <<>>
    /\ cc_prev = 0
    /\ cc_log = <<>>

(***************************************************************************)
(* circle_line_collision_check and LineSegment.coord_within_bounds         *)
(* (src/simulation.py) with the Vector2D operations they use               *)
(* (src/vectors.py).  The segments are those the program tests a ball      *)
(* against, the rails that Table.__init__ builds: they are parallel to an  *)
(* axis, so that normalise_result gives a unit axis vector without         *)
(* rounding.  The quotient x / magnitude of a slanted segment is rounded   *)
(* and is not modelled.                                                    *)
(***************************************************************************)
Vec(x, y) == [x |-> x, y |-> y]

\* Vector2D.__sub__, __add__, __mul__: each returns a new vector
VecSub(a, b) == Vec(a.x - b.x, a.y - b.y)

VecAdd(a, b) == Vec(a.x + b.x, a.y + b.y)

VecMul(a, amount) == Vec(a.x * amount, a.y * amount)

\* Vector2D.dot_product
DotProduct(a, b) == a.x * b.x + a.y * b.y

\* Vector2D.magnitude_squared
MagnitudeSquared(a) == a.x * a.x + a.y * a.y

\* Vector2D.normalise_result of a vector parallel to an axis (or zero)
NormaliseResult(a) == Vec(Sign(a.x), Sign(a.y))

\* LineSegment.__init__
LineSegment(coord1, coord2) == [coord1 |-> coord1, coord2 |-> coord2, vector |-> VecSub(coord2, coord1)]

\* Circle.__init__
Circle(centre, radius) == [centre |-> centre, radius |-> radius]

\* a coord_within_bounds that accepts every coordinate
CoordWithinBoundsAlways(line, coord) == TRUE

\* LineSegment.coord_within_bounds with extra = 0
CoordWithinBounds(line, coord) ==
    \/ line.coord1.x < coord.x /\ coord.x < line.coord2.x
    \/ line.coord2.x < coord.x /\ coord.x < line.coord1.x
    \/ line.coord1.y < coord.y /\ coord.y < line.coord2.y
    \/ line.coord2.y < coord.y /\ coord.y < line.coord1.y

\* the point of the segment's line nearest to the centre (new_position)
NewPosition(circle, line) ==
    LET distance_vector == VecSub(circle.centre, line.coord1)
        normalised_line_vector == NormaliseResult(line.vector)
        projected_magnitude == DotProduct(distance_vector, normalised_line_vector)
        projected_vector == VecMul(normalised_line_vector, projected_magnitude)
    IN  VecAdd(line.coord1, projected_vector)

\* circle_line_collision_check: the value returned
CircleLineCollisionCheck(circle, line) ==
    LET new_position == NewPosition(circle, line)
    IN  IF CoordWithinBounds(line, new_position)
        THEN MagnitudeSquared(VecSub(circle.centre, new_position)) <= circle.radius * circle.radius
        ELSE LET coord_one_distance == MagnitudeSquared(VecSub(line.coord1, circle.centre))
                 coord_two_distance == MagnitudeSquared(VecSub(line.coord2, circle.centre))
                 closest_distance == IF coord_one_distance <= coord_two_distance THEN coord_one_distance ELSE coord_two_distance
             IN  closest_distance <= circle.radius * circle.radius

Coords == {Vec(x, y) : x \in 0..MaxCoord, y \in 0..MaxCoord}

\* segments parallel to an axis, in either direction
Rails == {LineSegment(c[1], c[2]) : c \in {c \in Coords \X Coords : c[1] # c[2] /\ (c[1].x = c[2].x \/ c[1].y = c[2].y)}}

Circles == {Circle(centre, radius) : centre \in Coords, radius \in 1..MaxRadius}

\* a call of circle_line_collision_check(circle, line); the function only
\* reads its arguments and builds new vectors, the objects stay as passed.
\* The function keeps no state between calls: one call is followed.
CheckCollision ==
    /\ ~cl_called
    /\ \E circle \in Circles, line \in Rails :
          /\ cl_args' = [circle |-> circle, line |-> line]
          /\ cl_circle' = circle
          /\ cl_line' = line
          /\ cl_result' = CircleLineCollisionCheck(circle, line)
    /\ cl_called' = TRUE
    /\ UNCHANGED notCollide

\* before the first call
CollisionIdle ==
    /\ cl_called = FALSE
    /\ cl_args = [circle |-> Circle(Vec(0, 0), 1), line |-> LineSegment(Vec(0, 0), Vec(1, 0))]
    /\ cl_circle = cl_args.circle
    /\ cl_line = cl_args.line
    /\ cl_result = FALSE

(***************************************************************************)
(* Server.__add_db_request, called by the processor threads of the         *)
(* connections, and Server.__process_database_requests, the one database   *)
(* thread (src/server.py), over the Queue of src/data.py.  A request is    *)
(* named by the thread that issued it and its number for that thread; a    *)
(* result carries the name of the request it was produced for next to the  *)
(* request id the code stores in it.                                       *)
(***************************************************************************)
Callers == {1, 2}

\* what Queue.peek returns on an empty queue
NoResult == [id |-> -1, for |-> <<0, 0>>]

\* Queue.peek: the item at the back
ProcessedPeek(items) == IF Len(items) = 0 THEN NoResult ELSE items[Len(items)]

\* Queue.remove: items[1:], the item at the front goes
ProcessedRemove(items) == IF Len(items) = 0 THEN items ELSE Tail(items)

\* __add_db_request: request_id = self.current_request_id
TakeRequestId ==
    \E c \in Callers, receive \in BOOLEAN :
       /\ rq_pc[c] = "idle"
       /\ rq_count[c] < MaxRequests
       /\ rq_id' = [rq_id EXCEPT ![c] = current_request_id]
       /\ rq_receive' = [rq_receive EXCEPT ![c] = receive]
       /\ rq_count' = [rq_count EXCEPT ![c] = @ + 1]
       /\ rq_pc' = [rq_pc EXCEPT ![c] = "increment"]
       /\ UNCHANGED <<notDb, current_request_id, database_queue, processed_queue, rq_data, rq_returned, rq_removed>>

\* __add_db_request: self.current_request_id += 1
IncrementRequestId ==
    \E c \in Callers :
       /\ rq_pc[c] = "increment"
       /\ current_request_id' = current_request_id + 1
       /\ rq_pc' = [rq_pc EXCEPT ![c] = "enqueue"]
       /\ UNCHANGED <<notDb, database_queue, processed_queue, rq_receive, rq_id, rq_data, rq_count, rq_returned, rq_removed>>

\* __add_db_request: self.database_queue.enqueue(...); without receive the
\* call returns here
EnqueueRequest ==
    \E c \in Callers :
       /\ rq_pc[c] = "enqueue"
       /\ database_queue' = Append(database_queue, [receive |-> rq_receive[c], id |-> rq_id[c], for |-> <<c, rq_count[c]>>])
       /\ rq_pc' = [rq_pc EXCEPT ![c] = IF rq_receive[c] THEN "peek" ELSE "idle"]
       /\ UNCHANGED <<notDb, current_request_id, processed_queue, rq_receive, rq_id, rq_data, rq_count, rq_returned, rq_removed>>

\* __add_db_request: data = self.processed_queue.peek() and the test of
\* data[0] against request_id; on a mismatch the thread sleeps and peeks again
PeekProcessed ==
    \E c \in Callers :
       /\ rq_pc[c] = "peek"
       /\ rq_data' = [rq_data EXCEPT ![c] = ProcessedPeek(processed_queue)]
       /\ rq_pc' = [rq_pc EXCEPT ![c] = IF ProcessedPeek(processed_queue).id = rq_id[c] THEN "remove" ELSE "peek"]
       /\ UNCHANGED <<notDb, current_request_id, database_queue, processed_queue, rq_receive, rq_id, rq_count, rq_returned, rq_removed>>

\* __add_db_request: self.processed_queue.remove() and the return of data[1:]
RemoveProcessed ==
    \E c \in Callers :
       /\ rq_pc[c] = "remove"
       /\ processed_queue' = ProcessedRemove(processed_queue)
       /\ rq_removed' = rq_removed \cup {<<c, item.for>> : item \in {processed_queue[k] : k \in DOMAIN processed_queue} \ {processed_queue'[k] : k \in DOMAIN processed_queue'}}
       /\ rq_returned' = [rq_returned EXCEPT ![c] = rq_data[c]]
       /\ rq_pc' = [rq_pc EXCEPT ![c] = "idle"]
       /\ UNCHANGED <<notDb, current_request_id, database_queue, rq_receive, rq_id, rq_data, rq_count>>

\* __process_database_requests: one pass of the loop with a request
ProcessDatabaseRequest ==
    /\ Len(database_queue) > 0
    /\ database_queue' = Tail(database_queue)
    /\ processed_queue' = IF Head(database_queue).receive
                          THEN Append(processed_queue, [id |-> Head(database_queue).id, for |-> Head(database_queue).for])
                          ELSE processed_queue
    /\ UNCHANGED <<notDb, current_request_id, rq_pc, rq_receive, rq_id, rq_data, rq_count, rq_returned, rq_removed>>

\* Server.__init__, no request issued yet
DbIdle ==
    /\ current_request_id = 0
    /\ database_queue = <<>>
    /\ processed_queue = <<>>
    /\ rq_pc = [c \in Callers |-> "idle"]
    /\ rq_receive = [c \in Callers |-> FALSE]
    /\ rq_id = [c \in Callers |-> 0]
    /\ rq_data = [c \in Callers |-> NoResult]
    /\ rq_count = [c \in Callers |-> 0]
    /\ rq_returned = [c \in Callers |-> NoResult]
    /\ rq_removed = {}

\* no command has reached the Lobby
GuardIdle ==
    /\ cmd_from = 0
    /\ cmd_count = 0

(***************************************************************************)
(* Server.__join_existing_lobby (src/server.py), the handler of join_lobby *)
(* that each Connection's own processor thread calls, for one of the       *)
(* competitive lobbies that Server.__init__ creates: it exists, is empty   *)
(* and has no password.                                                    *)
(***************************************************************************)
Joiners == 1..MaxJoiners

\* the id of the lobby and an id that no lobby has
LobbyIds == {0, 1}

\* __join_existing_lobby up to the test len(lobby.players) < 2 and, in the
\* branch taken, the enqueue of the reply
JoinTest ==
    \E j \in Joiners, lobby_id \in LobbyIds :
       /\ jn_pc[j] = "idle"
       /\ ~jn_in_lobby[j]
       /\ IF lobby_id # 0
          THEN /\ jn_reply' = [jn_reply EXCEPT ![j] = "not_found"]
               /\ UNCHANGED jn_pc
          ELSE IF Len(jn_players) < 2
          THEN /\ jn_reply' = [jn_reply EXCEPT ![j] = "join_success"]
               /\ jn_pc' = [jn_pc EXCEPT ![j] = "add_player"]
          ELSE /\ jn_reply' = [jn_reply EXCEPT ![j] = "full"]
               /\ UNCHANGED jn_pc
       /\ UNCHANGED <<notJoin, jn_players, jn_in_lobby, jn_started>>

\* lobby.add_player(player): self.players.append(player), in_lobby = True
JoinAddPlayer ==
    \E j \in Joiners :
       /\ jn_pc[j] = "add_player"
       /\ jn_players' = Append(jn_players, j)
       /\ jn_in_lobby' = [jn_in_lobby EXCEPT ![j] = TRUE]
       /\ jn_pc' = [jn_pc EXCEPT ![j] = "idle"]
       /\ UNCHANGED <<notJoin, jn_reply, jn_started>>

\* Server.__manage_lobbies: a lobby not yet started that holds exactly two
\* players is started
ManageJoinedLobby ==
    /\ ~jn_started
    /\ Len(jn_players) = 2
    /\ jn_started' = TRUE
    /\ UNCHANGED <<notJoin, jn_players, jn_pc, jn_in_lobby, jn_reply>>

\* Server.__init__ and Connection.__init__
JoinIdle ==
    /\ jn_players = <<>>
    /\ jn_pc = [j \in Joiners |-> "idle"]
    /\ jn_in_lobby = [j \in Joiners |-> FALSE]
    /\ jn_reply = [j \in Joiners |-> "none"]
    /\ jn_started = FALSE

\* the strike, the telemetry, the collision check, the database requests,
\* the command handlers and the joins before anything has happened
LateIdle ==
    /\ StrikeIdle
    /\ CueIdle
    /\ CollisionIdle
    /\ DbIdle
    /\ GuardIdle
    /\ JoinIdle

\* the components outside the channel and the Lobby at rest
AuxIdle ==
    /\ QueueIdle
    /\ NewLobbyIdle
    /\ LoginIdle
    /\ StreamIdle /\ rx_waiting = FALSE
    /\ TableIdle
    /\ BallIdle /\ bx = BallRadius
    /\ LateIdle

(***************************************************************************)
(* The Lobby's Table (src/simulation.py).  Balls of one group are          *)
(* interchangeable for the rules, so a ball is modelled by its kind.       *)
(***************************************************************************)
Kinds == {"spotted", "striped", "eight", "cue"}

\* self.__other_turn
OtherTurn(turn) == IF turn = 1 THEN 2 ELSE 1

Count(list, kind) == Cardinality({i \in DOMAIN list : list[i] = kind})

\* Lobby.__construct_objects: a full rack and the cue ball on a new Table
RackedBalls == [spotted |-> GroupSize, striped |-> GroupSize]

\* the lists of balls one shot may pocket, in the order pocketed, given the
\* coloured balls on the table (the 8-ball and the cue ball are on it)
PocketedLists(onTable) ==
    {list \in UNION {[1..n -> Kinds] : n \in 0..MaxPocketed} :
        /\ Count(list, "spotted") <= onTable.spotted
        /\ Count(list, "striped") <= onTable.striped
        /\ Count(list, "eight") <= 1
        /\ Count(list, "cue") <= 1}

\* the balls the cue ball may strike first
FirstHits(onTable) ==
    {<<"eight">>}
        \cup (IF onTable.spotted > 0 THEN {<<"spotted">>} ELSE {})
        \cup (IF onTable.striped > 0 THEN {<<"striped">>} ELSE {})

\* the numbers of distinct balls that touched a rail.  The rules read
\* rail_contacts only when nothing was pocketed, against 0 and against 4.
RailContacts(onTable, list) ==
    IF list # <<>> THEN {0}
    ELSE IF onTable.spotted + onTable.striped + 1 >= 4 THEN {0, 1, 4}
    ELSE {0, 1}

\* what Table.update records while a shot rolls: if the cue ball strikes
\* nothing, no numbered ball moves; otherwise any feasible combination
ShotOutcomes(onTable) ==
    {[hit |-> <<>>, rail_contacts |-> 0, pocketed |-> list] :
        list \in {<<>>, <<"cue">>}}
    \cup
    UNION {UNION {{[hit |-> first, rail_contacts |-> rails, pocketed |-> list] :
                      rails \in RailContacts(onTable, list)} :
                  list \in PocketedLists(onTable)} :
           first \in FirstHits(onTable)}

Max(a, b) == IF a >= b THEN a ELSE b

\* resolve_collisions and resolve_pockets while the balls of a shot roll:
\* they append to the logs, pocketed balls leave the table and a pocketed
\* cue ball is put in hand
TableLogs(o) ==
    /\ moving' = FALSE
    /\ hit' = IF hit # <<>> THEN hit ELSE o.hit
    /\ rail_contacts' = Max(rail_contacts, o.rail_contacts)
    /\ pocketed' = pocketed \o o.pocketed
    /\ balls' = [spotted |-> balls.spotted - Count(o.pocketed, "spotted"),
                 striped |-> balls.striped - Count(o.pocketed, "striped")]
    /\ holding' = (holding \/ Count(o.pocketed, "cue") > 0)
    /\ simulated' = TRUE

\* Table.update while balls move: the table counts as in motion
TableRolls(o) ==
    /\ in_motion' = TRUE
    /\ TableLogs(o)

\* Table.update with every ball at rest
TableRests ==
    /\ in_motion' = FALSE
    /\ UNCHANGED <<moving, hit, rail_contacts, pocketed, balls, holding, simulated>>

(***************************************************************************)
(* The rule checks of the Lobby (src/server.py)                            *)
(***************************************************************************)
\* len() of the current player's list, p1_balls or p2_balls, which is the
\* empty list until __close_table makes it one of the two group lists
PlayerBalls(turn, p1Striped, nStriped, nSpotted) ==
    IF p1Striped = "None" THEN 0
    ELSE IF (p1Striped = "True") = (turn = 1) THEN nStriped
    ELSE nSpotted

\* the kind of the balls in the current player's list
PlayerKind(turn, p1Striped) ==
    IF p1Striped = "None" THEN "none"
    ELSE IF (p1Striped = "True") = (turn = 1) THEN "striped"
    ELSE "spotted"

Coloured(list) == {i \in DOMAIN list : list[i] \notin {"eight", "cue"}}

FirstColoured(list) == CHOOSE i \in Coloured(list) : \A j \in Coloured(list) : i <= j

\* __open_table_check without the test of the first ball struck
OpenTableCheckAnyFirstHit(turn, p1Striped, hitLog, list) ==
    IF Coloured(list) # {}
    THEN [stop_open |-> TRUE,
          p1_is_striped |->
              IF (list[FirstColoured(list)] = "striped") = (turn = 1)
              THEN "True" ELSE "False"]
    ELSE [stop_open |-> FALSE, p1_is_striped |-> p1Striped]

\* Lobby.__open_table_check (with __close_table): whether the table closes
\* and the value of p1_is_striped afterwards
OpenTableCheck(turn, p1Striped, hitLog, list) ==
    IF Len(hitLog) > 0 /\ hitLog[1] = "eight"
    THEN [stop_open |-> FALSE, p1_is_striped |-> p1Striped]
    ELSE IF Coloured(list) # {}
    THEN [stop_open |-> TRUE,
          p1_is_striped |->
              IF (list[FirstColoured(list)] = "striped") = (turn = 1)
              THEN "True" ELSE "False"]
    ELSE [stop_open |-> FALSE, p1_is_striped |-> p1Striped]

\* __break_check without the test of the rail contacts
BreakCheckNoRails(list, rails) ==
    [foul |-> Count(list, "eight") > 0 \/ Count(list, "cue") > 0,
     force_redo |-> Count(list, "eight") > 0]

\* __break_check with force_redo set for a pocketed cue ball as well
BreakCheckCueForces(list, rails) ==
    IF Len(list) = 0 /\ rails < 4
    THEN [foul |-> TRUE, force_redo |-> FALSE]
    ELSE [foul |-> Count(list, "eight") > 0 \/ Count(list, "cue") > 0,
          force_redo |-> Count(list, "eight") > 0 \/ Count(list, "cue") > 0]

\* Lobby.__break_check
BreakCheck(list, rails) ==
    IF Len(list) = 0 /\ rails < 4
    THEN [foul |-> TRUE, force_redo |-> FALSE]
    ELSE [foul |-> Count(list, "eight") > 0 \/ Count(list, "cue") > 0,
          force_redo |-> Count(list, "eight") > 0]

\* the index enumerate() gives the 8-ball in the pocketed list, -1 if absent
EightIndex(list) ==
    IF Count(list, "eight") = 0 THEN -1
    ELSE (CHOOSE i \in DOMAIN list : list[i] = "eight") - 1

\* the loop of __victory_check with `index == 0` for `index != 0`
VictoryCheckFirst(turn, isOpen, playerBalls, list) ==
    IF EightIndex(list) = -1 THEN 0
    ELSE IF EightIndex(list) = 0 \/ isOpen \/ playerBalls # 0
    THEN OtherTurn(turn)
    ELSE turn

\* the loop of __victory_check with its first `return` outside the loop
VictoryCheckDedent(turn, isOpen, playerBalls, list) ==
    IF EightIndex(list) = -1 THEN OtherTurn(turn)
    ELSE IF EightIndex(list) # 0 \/ isOpen \/ playerBalls # 0
    THEN OtherTurn(turn)
    ELSE turn

\* Lobby.__victory_check: 0 for None
VictoryCheck(turn, isOpen, playerBalls, list) ==
    IF EightIndex(list) = -1 THEN 0
    ELSE IF EightIndex(list) # 0 \/ isOpen \/ playerBalls # 0
    THEN OtherTurn(turn)
    ELSE turn

\* __foul_check without its closing loop over the pocketed balls
FoulCheckNoCueLoop(isOpen, playerKind, playerBalls, hitLog, list, rails) ==
    \/ Len(hitLog) = 0
    \/ /\ ~isOpen
       /\ Len(hitLog) > 0
       /\ hitLog[1] # playerKind
       /\ (hitLog[1] = "eight" => playerBalls # 0)
    \/ Len(list) = 0 /\ rails = 0
    \/ Len(list) = 1 /\ list[1] = "cue"

\* Lobby.__foul_check: whether any foul reason was collected
FoulCheck(isOpen, playerKind, playerBalls, hitLog, list, rails) ==
    \/ Len(hitLog) = 0
    \/ /\ ~isOpen
       /\ Len(hitLog) > 0
       /\ hitLog[1] # playerKind
       /\ (hitLog[1] = "eight" => playerBalls # 0)
    \/ Len(list) = 0 /\ rails = 0
    \/ Len(list) = 1 /\ list[1] = "cue"
    \/ Count(list, "cue") > 0

\* __remove_pocketed_balls with can_continue set whenever any ball of a
\* group was pocketed, the opponent's included
RemovePocketedBallsAnyGroup(turn, isOpen, p1Striped, nStriped, nSpotted, hitLog, list) ==
    LET assigned == p1Striped # "None"
    IN  [striped_balls |-> IF assigned THEN nStriped - Count(list, "striped")
                           ELSE nStriped,
         spotted_balls |-> IF assigned THEN nSpotted - Count(list, "spotted")
                           ELSE nSpotted,
         can_continue |->
            IF isOpen /\ Len(hitLog) > 0 /\ hitLog[1] = "eight" THEN FALSE
            ELSE assigned /\ Count(list, PlayerKind(OtherTurn(turn), p1Striped)) > 0]

\* Lobby.__remove_pocketed_balls: the two group lists afterwards and
\* whether the current player may continue
RemovePocketedBalls(turn, isOpen, p1Striped, nStriped, nSpotted, hitLog, list) ==
    LET assigned == p1Striped # "None"
        own == PlayerKind(turn, p1Striped)
    IN  [striped_balls |-> IF assigned THEN nStriped - Count(list, "striped")
                           ELSE nStriped,
         spotted_balls |-> IF assigned THEN nSpotted - Count(list, "spotted")
                           ELSE nSpotted,
         can_continue |->
            IF isOpen /\ Len(hitLog) > 0 /\ hitLog[1] = "eight" THEN FALSE
            ELSE assigned /\ Count(list, own) > 0]

\* the if / elif chain of __apply_rules with the foul branch tested before
\* the victory branch
RuleBranchFoulFirst(isBreak, foul, force_redo, winner, can_continue) ==
    IF isBreak /\ foul THEN (IF force_redo THEN "force_redo" ELSE "redo_choice")
    ELSE IF foul THEN "foul"
    ELSE IF winner # 0 THEN "victory"
    ELSE IF can_continue THEN "continue"
    ELSE "next"

\* the if / elif chain of __apply_rules without the force_redo test
RuleBranchNoForce(isBreak, foul, force_redo, winner, can_continue) ==
    IF isBreak /\ foul THEN "redo_choice"
    ELSE IF winner # 0 THEN "victory"
    ELSE IF foul THEN "foul"
    ELSE IF can_continue THEN "continue"
    ELSE "next"

\* the if / elif chain of __apply_rules
RuleBranch(isBreak, foul, force_redo, winner, can_continue) ==
    IF isBreak /\ foul THEN (IF force_redo THEN "force_redo" ELSE "redo_choice")
    ELSE IF winner # 0 THEN "victory"
    ELSE IF foul THEN "foul"
    ELSE IF can_continue THEN "continue"
    ELSE "next"

(***************************************************************************)
(* NetworkedGame (src/client.py): the fields a client keeps of the game    *)
(* state and what each command handler does to them.  Both clients handle  *)
(* the same broadcasts, so one record stands for either of them.           *)
(***************************************************************************)
\* OfflineGame._other_turn
ClientOtherTurn(cl) == IF cl.player_turn = 1 THEN 2 ELSE 1

\* _load_settings: every received key overwrites the client's settings
ClientLoadSettings(cl, starter) == [cl EXCEPT !.starting_player = starter]

\* _create_game: _reset_state, then _player_turn = settings["starting_player"]
ClientCreateGame(cl) ==
    [cl EXCEPT !.player_turn = cl.starting_player,
               !.break = TRUE,
               !.open = TRUE,
               !.can_shoot = TRUE]

\* _hit_ball
ClientHitBall(cl) == [cl EXCEPT !.can_shoot = FALSE]

\* OfflineGame._keep
ClientKeep(cl) == [cl EXCEPT !.break = FALSE, !.can_shoot = TRUE]

\* OfflineGame._force_redo_message
ClientForceRedoMessage(cl) == [cl EXCEPT !.player_turn = ClientOtherTurn(cl)]

\* OfflineGame._victory, called by NetworkedGame._victory
ClientVictory(cl) == [cl EXCEPT !.can_shoot = FALSE]

\* OfflineGame._pass_turn alone
ClientPassTurnOnce(cl) == [cl EXCEPT !.player_turn = ClientOtherTurn(cl)]

\* NetworkedGame._pass_turn: super()._pass_turn() changes the turn, and
\* `self._player_turn = self._other_turn` changes it again
ClientPassTurn(cl) ==
    LET base == [cl EXCEPT !.player_turn = ClientOtherTurn(cl)]
    IN  [base EXCEPT !.player_turn = ClientOtherTurn(base)]

\* NetworkedGame._start_next_turn
ClientStartNextTurn(cl, continued_turn, is_break, is_open, may_shoot) ==
    [cl EXCEPT !.player_turn = IF continued_turn THEN cl.player_turn
                               ELSE ClientOtherTurn(cl),
               !.break = is_break,
               !.open = is_open,
               !.can_shoot = may_shoot]

\* Connection.__process_data at the client: the handler registered for the
\* command; foul, close_table, redo_choice and place_ball leave the four
\* fields alone
ClientHandle(cl, command, args) ==
    CASE command = "load_settings" -> ClientLoadSettings(cl, args.starting_player)
      [] command = "create_game" -> ClientCreateGame(cl)
      [] command = "hit_ball" -> ClientHitBall(cl)
      [] command = "keep" -> ClientKeep(cl)
      [] command = "force_redo_message" -> ClientForceRedoMessage(cl)
      [] command = "victory" -> ClientVictory(cl)
      [] command = "pass_turn" -> ClientPassTurn(cl)
      [] command = "start_next_turn" ->
             ClientStartNextTurn(cl, args.continued, args.is_break,
                                 args.is_open, args.can_shoot)
      [] OTHER -> cl

\* the client handles the received commands in the order they were sent
RECURSIVE ClientProcess(_, _, _)
ClientProcess(cl, commands, args) ==
    IF commands = <<>> THEN cl
    ELSE ClientProcess(ClientHandle(cl, Head(commands), args), Tail(commands), args)

\* the arguments the Lobby sends with start_next_turn and (the starting
\* player among the settings) with load_settings
Args(continued, is_break, is_open, may_shoot, starter) ==
    [continued |-> continued, is_break |-> is_break, is_open |-> is_open,
     can_shoot |-> may_shoot, starting_player |-> starter]

(***************************************************************************)
(* Lobby.__create_game, __apply_rules and __check_game_state               *)
(***************************************************************************)
\* __construct_objects (a new Table with a full rack) and __reset_state;
\* `starter` is settings["starting_player"] at the call
CreateGame(starter) ==
    /\ balls' = RackedBalls
    /\ holding' = FALSE
    /\ hit' = <<>>
    /\ rail_contacts' = 0
    /\ pocketed' = <<>>
    /\ in_motion' = FALSE
    /\ moving' = FALSE
    /\ break' = TRUE
    /\ open' = TRUE
    /\ striped_balls' = GroupSize
    /\ spotted_balls' = GroupSize
    /\ p1_is_striped' = "None"
    /\ player_turn' = starter
    /\ can_shoot' = TRUE
    /\ can_pass_turn' = FALSE
    /\ checked' = TRUE

\* the broadcasts of __apply_rules with `foul` sent after start_next_turn
TurnMessagesFoulLast(branch, stop_open) ==
    (IF branch = "redo_choice" THEN <<"redo_choice">> ELSE <<>>)
    \o (IF stop_open THEN <<"close_table">> ELSE <<>>)
    \o <<"start_next_turn">>
    \o (IF branch = "foul" THEN <<"foul">> ELSE <<>>)

\* the messages __apply_rules broadcasts on the branches that start the
\* next turn
TurnMessages(branch, stop_open) ==
    (IF branch = "redo_choice" THEN <<"redo_choice">>
     ELSE IF branch = "foul" THEN <<"foul">>
     ELSE <<>>)
    \o (IF stop_open THEN <<"close_table">> ELSE <<>>)
    \o <<"start_next_turn">>

\* redo_choice enqueued for the player whose turn it is
RedoChoiceShooter(turn) == turn

\* the loop of __apply_rules that enqueues redo_choice: player 1 when
\* player_turn is 2, player 2 when player_turn is 1
RedoChoiceRecipient(turn) == IF turn = 2 THEN 1 ELSE 2

\* `self.__open = not stop_open`
OpenAfterAssign(isOpen, stop_open) == ~stop_open

\* __apply_rules without the `if stop_open:` block
OpenAfterKeep(isOpen, stop_open) == isOpen

\* `if stop_open: ... self.__open = False`
OpenAfter(isOpen, stop_open) == IF stop_open THEN FALSE ELSE isOpen

\* Lobby.__apply_rules, called by __check_game_state after `checked = True`;
\* p1Striped, nStriped, nSpotted are the values __close_table and
\* __remove_pocketed_balls left
ApplyRules(stop_open, foul, force_redo, winner, can_continue, p1Striped, nStriped, nSpotted) ==
    LET branch == RuleBranch(break, foul, force_redo, winner, can_continue) IN
    IF branch = "force_redo"
    THEN \* force_redo_message, then __redo(forced=True) and return
         LET sent == <<"force_redo_message", "load_settings", "create_game">>
             args == Args(FALSE, TRUE, TRUE, TRUE, OtherTurn(player_turn))
         IN  /\ starting_player' = OtherTurn(player_turn)
             /\ CreateGame(OtherTurn(player_turn))
             /\ last_sent' = sent
             /\ last_args' = args
             /\ client' = ClientProcess(client, sent, args)
             /\ client_ready' = TRUE
             /\ client_can_pass' = FALSE
             /\ UNCHANGED <<victor, finished, choosing, closings>>
    ELSE IF branch = "victory"
    THEN \* victory broadcast, end_game(victor) and return
         /\ last_sent' = <<"victory">>
         /\ client' = ClientProcess(client, <<"victory">>, last_args)
         /\ victor' = winner
         /\ finished' = TRUE
         /\ checked' = TRUE
         /\ p1_is_striped' = p1Striped
         /\ striped_balls' = nStriped
         /\ spotted_balls' = nSpotted
         /\ client_ready' = FALSE
         /\ client_can_pass' = FALSE
         /\ UNCHANGED <<player_turn, break, open, can_shoot, can_pass_turn,
                        starting_player, balls, holding, hit, rail_contacts,
                        pocketed, in_motion, moving, choosing, closings,
                        last_args>>
    ELSE LET sent == TurnMessages(branch, stop_open)
             args == Args(branch = "continue", break /\ foul,
                          OpenAfter(open, stop_open), branch # "redo_choice",
                          starting_player)
         IN  /\ player_turn' = IF branch = "continue" THEN player_turn
                               ELSE OtherTurn(player_turn)
             /\ can_pass_turn' = (branch = "continue")
             /\ holding' = (holding \/ branch = "foul")
             /\ break' = (break /\ foul)
             /\ open' = OpenAfter(open, stop_open)
             /\ closings' = IF open /\ ~OpenAfter(open, stop_open) /\ closings < 2
                            THEN closings + 1 ELSE closings
             /\ can_shoot' = (branch # "redo_choice")
             /\ hit' = <<>>
             /\ rail_contacts' = 0
             /\ pocketed' = <<>>
             /\ last_sent' = sent
             /\ last_args' = args
             /\ client' = ClientProcess(client, sent, args)
             /\ checked' = TRUE
             /\ p1_is_striped' = p1Striped
             /\ striped_balls' = nStriped
             /\ spotted_balls' = nSpotted
             /\ choosing' = IF branch = "redo_choice"
                            THEN RedoChoiceRecipient(player_turn) ELSE 0
             /\ client_ready' = (branch # "redo_choice")
             /\ client_can_pass' = (branch = "continue")
             /\ UNCHANGED <<victor, finished, starting_player, balls, in_motion,
                            moving>>

\* Lobby.__check_game_state: the checks in their order, `checked = True`,
\* then __apply_rules
CheckGameState ==
    LET otc == IF open
               THEN OpenTableCheck(player_turn, p1_is_striped, hit, pocketed)
               ELSE [stop_open |-> FALSE, p1_is_striped |-> p1_is_striped]
        p1Striped == otc.p1_is_striped
        playerBalls == PlayerBalls(player_turn, p1Striped, striped_balls, spotted_balls)
        bc == BreakCheck(pocketed, rail_contacts)
        winner == IF break THEN 0
                  ELSE VictoryCheck(player_turn, open, playerBalls, pocketed)
        foul == IF break THEN bc.foul
                ELSE FoulCheck(open, PlayerKind(player_turn, p1Striped),
                               playerBalls, hit, pocketed, rail_contacts)
        force_redo == break /\ bc.force_redo
        rp == RemovePocketedBalls(player_turn, open, p1Striped, striped_balls,
                                  spotted_balls, hit, pocketed)
    IN  /\ ApplyRules(otc.stop_open, foul, force_redo, winner, rp.can_continue,
                      p1Striped, rp.striped_balls, rp.spotted_balls)
        /\ last_eval' =
               [happened |-> TRUE,
                break |-> break,
                open |-> open,
                shooter |-> player_turn,
                eight_index |-> EightIndex(pocketed),
                balls_before |-> PlayerBalls(player_turn, p1_is_striped,
                                             striped_balls, spotted_balls),
                player_balls |-> playerBalls,
                winner |-> winner,
                foul |-> foul,
                branch |-> RuleBranch(break, foul, force_redo, winner,
                                      rp.can_continue),
                none_pocketed |-> pocketed = <<>>,
                own_pocketed |-> Count(pocketed, PlayerKind(player_turn, p1Striped)) > 0,
                simulated |-> simulated,
                in_motion |-> in_motion,
                drawn |-> drawn]

(***************************************************************************)
(* The Lobby's handlers, run by a player's processor thread.  A client     *)
(* sends a command only when its own game state allows the control.        *)
(***************************************************************************)
\* NetworkedGame._use_cue at the client whose turn it is
MayShoot(c) ==
    /\ ~finished
    /\ client_ready
    /\ player_turn = c
    /\ ~holding
    /\ hit_pc[c] = "idle"

\* __hit_ball up to `self.checked = False`: the force is applied to the
\* ball, hit_ball is relayed to the other player, both clients simulate
HitBallForce(c) ==
    /\ MayShoot(c)
    /\ hits < MaxShots
    /\ hits' = hits + 1
    /\ moving' = TRUE
    /\ checked' = FALSE
    /\ last_sent' = <<"hit_ball">>
    /\ client' = ClientProcess(client, <<"hit_ball">>, last_args)
    /\ hit_pc' = [hit_pc EXCEPT ![c] = "do_check"]
    /\ drawing' = [p \in Players |-> TRUE]
    /\ client_ready' = FALSE
    /\ client_can_pass' = FALSE
    /\ simulated' = FALSE
    /\ drawn' = {}
    /\ UNCHANGED <<lateVars, chanVars, quitVars, frameVars, auxVars, closings, last_args,
                   player_turn, break, open, p1_is_striped, striped_balls,
                   spotted_balls, can_shoot, can_pass_turn, do_check, pending,
                   victor, finished, starting_player, balls, holding, hit,
                   rail_contacts, pocketed, in_motion, update_pc, choosing,
                   evals, last_eval>>

\* __hit_ball: `self.do_check = True`
HitBallDoCheck(c) ==
    /\ hit_pc[c] = "do_check"
    /\ do_check' = TRUE
    /\ hit_pc' = [hit_pc EXCEPT ![c] = "pending"]
    /\ UNCHANGED <<lateVars, chanVars, quitVars, frameVars, auxVars, closings, last_args, client,
                   player_turn, break, open, p1_is_striped, striped_balls,
                   spotted_balls, can_shoot, can_pass_turn, checked, pending,
                   victor, finished, starting_player, balls, holding, hit,
                   rail_contacts, pocketed, in_motion, moving, update_pc,
                   drawing, client_ready, client_can_pass, choosing, hits,
                   evals, simulated, drawn, last_eval, last_sent>>

\* __hit_ball: `self.pending = self.players.copy()`
HitBallPending(c) ==
    /\ hit_pc[c] = "pending"
    /\ pending' = Players
    /\ hit_pc' = [hit_pc EXCEPT ![c] = "idle"]
    /\ UNCHANGED <<lateVars, chanVars, quitVars, frameVars, auxVars, closings, last_args, client,
                   player_turn, break, open, p1_is_striped, striped_balls,
                   spotted_balls, can_shoot, can_pass_turn, checked, do_check,
                   victor, finished, starting_player, balls, holding, hit,
                   rail_contacts, pocketed, in_motion, moving, update_pc,
                   drawing, client_ready, client_can_pass, choosing, hits,
                   evals, simulated, drawn, last_eval, last_sent>>

\* the client's table settles, it sends finished_drawing, and
\* __finished_drawing runs `self.pending.remove(player)`, which raises
\* ValueError (ending the processor thread) when the player is not pending
FinishedDrawing(c) ==
    /\ drawing[c]
    /\ hit_pc[c] = "idle"
    /\ drawing' = [drawing EXCEPT ![c] = FALSE]
    /\ IF c \in pending
       THEN /\ pending' = pending \ {c}
            /\ drawn' = drawn \cup {c}
            /\ UNCHANGED hit_pc
       ELSE /\ hit_pc' = [hit_pc EXCEPT ![c] = "dead"]
            /\ UNCHANGED <<pending, drawn>>
    /\ UNCHANGED <<lateVars, chanVars, quitVars, frameVars, auxVars, closings, last_args, client,
                   player_turn, break, open, p1_is_striped, striped_balls,
                   spotted_balls, can_shoot, can_pass_turn, checked, do_check,
                   victor, finished, starting_player, balls, holding, hit,
                   rail_contacts, pocketed, in_motion, moving, update_pc,
                   client_ready, client_can_pass, choosing, hits, evals,
                   simulated, last_eval, last_sent>>

\* __place_ball: the ball in hand is put back on the table
PlaceBall(c) ==
    /\ ~finished
    /\ client_ready
    /\ player_turn = c
    /\ holding
    /\ hit_pc[c] = "idle"
    /\ holding' = FALSE
    /\ last_sent' = <<"place_ball">>
    /\ UNCHANGED <<lateVars, chanVars, quitVars, frameVars, auxVars, closings, last_args, client,
                   player_turn, break, open, p1_is_striped, striped_balls,
                   spotted_balls, can_shoot, can_pass_turn, checked, do_check,
                   pending, victor, finished, starting_player, balls, hit,
                   rail_contacts, pocketed, in_motion, moving, update_pc,
                   hit_pc, drawing, client_ready, client_can_pass, choosing,
                   hits, evals, simulated, drawn, last_eval>>

\* __pass_turn: pass_turn and start_next_turn(False, break, open, True) are
\* broadcast and the turn changes
PassTurn(c) ==
    /\ ~finished
    /\ client_ready
    /\ client_can_pass
    /\ player_turn = c
    /\ hit_pc[c] = "idle"
    /\ player_turn' = OtherTurn(player_turn)
    /\ last_sent' = <<"pass_turn", "start_next_turn">>
    /\ last_args' = Args(FALSE, break, open, TRUE, starting_player)
    /\ client' = ClientProcess(client, <<"pass_turn", "start_next_turn">>,
                               Args(FALSE, break, open, TRUE, starting_player))
    /\ client_can_pass' = FALSE
    /\ UNCHANGED <<lateVars, chanVars, quitVars, frameVars, auxVars, closings,
                   break, open, p1_is_striped, striped_balls, spotted_balls,
                   can_shoot, can_pass_turn, checked, do_check, pending,
                   victor, finished, starting_player, balls, holding, hit,
                   rail_contacts, pocketed, in_motion, moving, update_pc,
                   hit_pc, drawing, client_ready, choosing, hits, evals,
                   simulated, drawn, last_eval>>

\* __keep: the player offered the choice keeps the illegal break
Keep(c) ==
    /\ ~finished
    /\ choosing = c
    /\ hit_pc[c] = "idle"
    /\ break' = FALSE
    /\ can_shoot' = TRUE
    /\ choosing' = 0
    /\ client_ready' = TRUE
    /\ last_sent' = <<"keep">>
    /\ client' = ClientProcess(client, <<"keep">>, last_args)
    /\ UNCHANGED <<lateVars, chanVars, quitVars, frameVars, auxVars, closings, last_args,
                   player_turn, open, p1_is_striped, striped_balls,
                   spotted_balls, can_pass_turn, checked, do_check, pending,
                   victor, finished, starting_player, balls, holding, hit,
                   rail_contacts, pocketed, in_motion, moving, update_pc,
                   hit_pc, drawing, client_can_pass, hits, evals, simulated,
                   drawn, last_eval>>

\* __redo(forced=False): the player offered the choice has the break redone
\* and starts the new game
Redo(c) ==
    /\ ~finished
    /\ choosing = c
    /\ hit_pc[c] = "idle"
    /\ starting_player' = player_turn
    /\ CreateGame(player_turn)
    /\ choosing' = 0
    /\ client_ready' = TRUE
    /\ client_can_pass' = FALSE
    /\ last_sent' = <<"load_settings", "create_game">>
    /\ last_args' = Args(FALSE, TRUE, TRUE, TRUE, player_turn)
    /\ client' = ClientProcess(client, <<"load_settings", "create_game">>,
                               Args(FALSE, TRUE, TRUE, TRUE, player_turn))
    /\ UNCHANGED <<lateVars, chanVars, quitVars, frameVars, auxVars, closings,
                   do_check, pending, victor, finished, update_pc, hit_pc,
                   drawing, hits, evals, simulated, drawn, last_eval>>

(***************************************************************************)
(* Lobby.__update, statement by statement                                  *)
(***************************************************************************)
\* `while self.started and not self.finished:` and `if not self.checked:`
UpdateLoop ==
    /\ update_pc = "loop"
    /\ update_pc' = IF finished THEN "done"
                    ELSE IF ~checked THEN "tick"
                    ELSE "motion"
    /\ UNCHANGED <<lateVars, chanVars, quitVars, frameVars, auxVars, closings, last_args, client,
                   player_turn, break, open, p1_is_striped, striped_balls,
                   spotted_balls, can_shoot, can_pass_turn, checked, do_check,
                   pending, victor, finished, starting_player, balls, holding,
                   hit, rail_contacts, pocketed, in_motion, moving, hit_pc,
                   drawing, client_ready, client_can_pass, choosing, hits,
                   evals, simulated, drawn, last_eval, last_sent>>

\* `self.__table.update(self.__time)`: the balls of a shot roll and come to
\* rest within the call, or nothing moves
UpdateTick ==
    /\ update_pc = "tick"
    /\ update_pc' = "motion"
    /\ IF moving
       THEN \E o \in ShotOutcomes(balls) : TableRolls(o)
       ELSE TableRests
    /\ UNCHANGED <<lateVars, chanVars, quitVars, frameVars, auxVars, closings, last_args, client,
                   player_turn, break, open, p1_is_striped, striped_balls,
                   spotted_balls, can_shoot, can_pass_turn, checked, do_check,
                   pending, victor, finished, starting_player, hit_pc,
                   drawing, client_ready, client_can_pass, choosing, hits,
                   evals, drawn, last_eval, last_sent>>

\* `if not self.__table.in_motion:`
UpdateMotion ==
    /\ update_pc = "motion"
    /\ update_pc' = IF ~in_motion THEN "cond" ELSE "loop"
    /\ UNCHANGED <<lateVars, chanVars, quitVars, frameVars, auxVars, closings, last_args, client,
                   player_turn, break, open, p1_is_striped, striped_balls,
                   spotted_balls, can_shoot, can_pass_turn, checked, do_check,
                   pending, victor, finished, starting_player, balls, holding,
                   hit, rail_contacts, pocketed, in_motion, moving, hit_pc,
                   drawing, client_ready, client_can_pass, choosing, hits,
                   evals, simulated, drawn, last_eval, last_sent>>

\* `if not self.checked and self.do_check and len(self.pending) == 0:`
MustCheck == ~checked /\ do_check /\ pending = {}

\* the condition holds and __check_game_state runs
UpdateCheck ==
    /\ update_pc = "cond"
    /\ MustCheck
    /\ CheckGameState
    /\ evals' = evals + 1
    /\ update_pc' = "uncheck"
    /\ UNCHANGED <<lateVars, chanVars, quitVars, frameVars, auxVars,
                   do_check, pending, hit_pc, drawing, hits, simulated, drawn>>

\* the condition fails: __send_cue_data, sleep, and the next iteration
UpdateSkip ==
    /\ update_pc = "cond"
    /\ ~MustCheck
    /\ update_pc' = "loop"
    /\ UNCHANGED <<lateVars, chanVars, quitVars, frameVars, auxVars, closings, last_args, client,
                   player_turn, break, open, p1_is_striped, striped_balls,
                   spotted_balls, can_shoot, can_pass_turn, checked, do_check,
                   pending, victor, finished, starting_player, balls, holding,
                   hit, rail_contacts, pocketed, in_motion, moving, hit_pc,
                   drawing, client_ready, client_can_pass, choosing, hits,
                   evals, simulated, drawn, last_eval, last_sent>>

\* `self.do_check = False` after __check_game_state returned
UpdateUncheck ==
    /\ update_pc = "uncheck"
    /\ do_check' = FALSE
    /\ update_pc' = "loop"
    /\ UNCHANGED <<lateVars, chanVars, quitVars, frameVars, auxVars, closings, last_args, client,
                   player_turn, break, open, p1_is_striped, striped_balls,
                   spotted_balls, can_shoot, can_pass_turn, checked, pending,
                   victor, finished, starting_player, balls, holding, hit,
                   rail_contacts, pocketed, in_motion, moving, hit_pc,
                   drawing, client_ready, client_can_pass, choosing, hits,
                   evals, simulated, drawn, last_eval, last_sent>>

UpdateStep ==
    \/ UpdateLoop
    \/ UpdateTick
    \/ UpdateMotion
    \/ UpdateCheck
    \/ UpdateSkip
    \/ UpdateUncheck

(***************************************************************************)
(* The same Lobby, one whole handler and one whole settle-and-check step   *)
(* at a time                                                               *)
(***************************************************************************)
\* __hit_ball from its first to its last statement
HitBall(c) ==
    /\ MayShoot(c)
    /\ moving' = TRUE
    /\ checked' = FALSE
    /\ do_check' = TRUE
    /\ pending' = Players
    /\ last_sent' = <<"hit_ball">>
    /\ client' = ClientProcess(client, <<"hit_ball">>, last_args)
    /\ drawing' = [p \in Players |-> TRUE]
    /\ client_ready' = FALSE
    /\ client_can_pass' = FALSE
    /\ simulated' = FALSE
    /\ drawn' = {}
    /\ UNCHANGED <<lateVars, chanVars, quitVars, frameVars, auxVars, closings, last_args,
                   player_turn, break, open, p1_is_striped, striped_balls,
                   spotted_balls, can_shoot, can_pass_turn, victor, finished,
                   starting_player, balls, holding, hit, rail_contacts,
                   pocketed, in_motion, update_pc, hit_pc, choosing, hits,
                   evals, last_eval>>

\* the iterations of __update that call Table.update until the shot has
\* settled: the logs are filled and in_motion is false again
Settle ==
    /\ ~finished
    /\ ~checked
    /\ moving
    /\ \E o \in ShotOutcomes(balls) : TableLogs(o)
    /\ in_motion' = FALSE
    /\ UNCHANGED <<lateVars, chanVars, quitVars, frameVars, auxVars, closings, last_args, client,
                   player_turn, break, open, p1_is_striped, striped_balls,
                   spotted_balls, can_shoot, can_pass_turn, checked, do_check,
                   pending, victor, finished, starting_player, update_pc,
                   hit_pc, drawing, client_ready, client_can_pass, choosing,
                   hits, evals, drawn, last_eval, last_sent>>

\* the iteration of __update that finds the table at rest and the condition
\* true: __check_game_state, then `self.do_check = False`
Evaluate ==
    /\ ~finished
    /\ ~moving
    /\ ~in_motion
    /\ MustCheck
    /\ CheckGameState
    /\ do_check' = FALSE
    /\ UNCHANGED <<lateVars, chanVars, quitVars, frameVars, auxVars,
                   pending, update_pc, hit_pc, drawing, hits, evals, simulated,
                   drawn>>

(***************************************************************************)
(* Leaving a started match: Lobby.player_quit and Lobby.end_game, reached  *)
(* by the "quit" command and by Server.__manage_players                    *)
(***************************************************************************)
\* the players send_players(victory_message, exclude=excluded) reaches:
\* not the quitter and not a player whose in_lobby is already false
EndGameRecipients(quitter) == {p \in Players : p # quitter /\ in_lobby[p]}

\* `victor = 1 if player is self.players[1] else 2`
QuitVictor(quitter) == IF quitter = 2 THEN 1 ELSE 2

\* Lobby.player_quit(player) with two players in the lobby, end_game(victor)
\* included
PlayerQuits(quitter) ==
    /\ end_game_msgs' = [p \in Players |->
                            IF p \in EndGameRecipients(quitter)
                            THEN end_game_msgs[p] + 1 ELSE end_game_msgs[p]]
    /\ finished' = TRUE
    /\ victor' = QuitVictor(quitter)
    /\ in_lobby' = [p \in Players |-> FALSE]
    /\ can_delete' = [p \in Players |-> IF ~conn_in_use[p] THEN TRUE ELSE can_delete[p]]
    /\ to_delete' = TRUE
    /\ forfeits' = forfeits + 1
    /\ first_quitter' = IF first_quitter = 0 THEN quitter ELSE first_quitter

\* NetworkedGame._quit at client c, and the "quit" command run by c's
\* processor thread on the server: player_quit(connection)
QuitCommand(c) ==
    /\ ~quit_pressed[c]
    /\ ~end_game_seen[c]
    /\ conn_in_use[c]
    /\ hit_pc[c] = "idle"
    /\ quit_pressed' = [quit_pressed EXCEPT ![c] = TRUE]
    /\ PlayerQuits(c)
    /\ UNCHANGED <<lateVars, chanVars, frameVars, auxVars,
                   conn_in_use, deleted, lobby_removed, recorded, end_game_seen,
                   player_turn, break, open, p1_is_striped, striped_balls,
                   spotted_balls, can_shoot, can_pass_turn, checked, do_check,
                   pending, starting_player, balls, holding, hit, rail_contacts,
                   pocketed, in_motion, moving, update_pc, hit_pc, drawing,
                   client_ready, client_can_pass, choosing, hits, evals,
                   simulated, drawn, last_eval, last_sent, closings, last_args,
                   client>>

\* the client handles end_game: its game shows the message and closes
ClientEndGame(c) ==
    /\ end_game_msgs[c] > 0
    /\ ~end_game_seen[c]
    /\ conn_in_use[c]
    /\ end_game_seen' = [end_game_seen EXCEPT ![c] = TRUE]
    /\ UNCHANGED <<lateVars, chanVars, frameVars, auxVars, lobbyVars,
                   conn_in_use, in_lobby, can_delete, deleted, to_delete,
                   lobby_removed, recorded, quit_pressed, end_game_msgs,
                   forfeits, first_quitter>>

\* the player's channel breaks: Connection.__apply_error on the server
ChannelBreaks(c) ==
    /\ conn_in_use[c]
    /\ conn_in_use' = [conn_in_use EXCEPT ![c] = FALSE]
    /\ can_delete' = [can_delete EXCEPT ![c] = ~in_lobby[c]]
    /\ UNCHANGED <<lateVars, chanVars, frameVars, auxVars, lobbyVars,
                   in_lobby, deleted, to_delete, lobby_removed, recorded,
                   quit_pressed, end_game_msgs, end_game_seen, forfeits,
                   first_quitter>>

\* Server.__manage_players for a connection that is no longer in use and
\* still in a lobby: lobby.player_quit(connection), after which can_delete
\* is true and the connection is removed
ManagePlayersQuit(c) ==
    /\ c \notin deleted
    /\ ~conn_in_use[c]
    /\ in_lobby[c]
    /\ PlayerQuits(c)
    /\ deleted' = deleted \cup {c}
    /\ UNCHANGED <<lateVars, chanVars, frameVars, auxVars,
                   conn_in_use, lobby_removed, recorded, quit_pressed,
                   end_game_seen,
                   player_turn, break, open, p1_is_striped, striped_balls,
                   spotted_balls, can_shoot, can_pass_turn, checked, do_check,
                   pending, starting_player, balls, holding, hit, rail_contacts,
                   pocketed, in_motion, moving, update_pc, hit_pc, drawing,
                   client_ready, client_can_pass, choosing, hits, evals,
                   simulated, drawn, last_eval, last_sent, closings, last_args,
                   client>>

\* Server.__manage_players for a connection that is no longer in use, not
\* in a lobby and deletable
ManagePlayersDelete(c) ==
    /\ c \notin deleted
    /\ ~conn_in_use[c]
    /\ ~in_lobby[c]
    /\ can_delete[c]
    /\ deleted' = deleted \cup {c}
    /\ UNCHANGED <<lateVars, chanVars, frameVars, auxVars, lobbyVars,
                   conn_in_use, in_lobby, can_delete, to_delete, lobby_removed,
                   recorded, quit_pressed, end_game_msgs, end_game_seen,
                   forfeits, first_quitter>>

\* Server.__manage_lobbies for a lobby flagged to_delete: the victor is
\* recorded by __record_game_stats (which makes the players that are not in
\* use deletable) and the lobby is removed
ManageLobbies ==
    /\ to_delete
    /\ ~lobby_removed
    /\ recorded' = victor
    /\ can_delete' = [p \in Players |-> IF victor # 0 THEN ~conn_in_use[p] ELSE can_delete[p]]
    /\ lobby_removed' = TRUE
    /\ UNCHANGED <<lateVars, chanVars, frameVars, auxVars, lobbyVars,
                   conn_in_use, in_lobby, deleted, to_delete, quit_pressed,
                   end_game_msgs, end_game_seen, forfeits, first_quitter>>

(***************************************************************************)
(* The Lobby specifications                                                *)
(***************************************************************************)
\* Lobby.__init__, then Lobby.start with both players: __create_game
LobbyStart ==
    /\ starting_player \in Players
    /\ player_turn = starting_player
    /\ break = TRUE
    /\ open = TRUE
    /\ p1_is_striped = "None"
    /\ striped_balls = GroupSize
    /\ spotted_balls = GroupSize
    /\ can_shoot = TRUE
    /\ can_pass_turn = FALSE
    /\ checked = TRUE
    /\ do_check = FALSE
    /\ pending = {}
    /\ victor = 0
    /\ finished = FALSE
    /\ balls = RackedBalls
    /\ holding = FALSE
    /\ hit = <<>>
    /\ rail_contacts = 0
    /\ pocketed = <<>>
    /\ in_motion = FALSE
    /\ moving = FALSE
    /\ update_pc = "loop"
    /\ hit_pc = [c \in Players |-> "idle"]
    /\ drawing = [c \in Players |-> FALSE]
    /\ client_ready = TRUE
    /\ client_can_pass = FALSE
    /\ choosing = 0
    /\ hits = 0
    /\ evals = 0
    /\ simulated = FALSE
    /\ drawn = {}
    /\ last_eval = [happened |-> FALSE, break |-> FALSE, open |-> FALSE,
                    shooter |-> 1, eight_index |-> -1, balls_before |-> 0,
                    player_balls |-> 0, winner |-> 0, foul |-> FALSE,
                    branch |-> "next", none_pocketed |-> FALSE,
                    own_pocketed |-> FALSE, simulated |-> FALSE,
                    in_motion |-> FALSE, drawn |-> {}]
    /\ closings = 0
    /\ conn_in_use = [c \in Players |-> TRUE]
    /\ in_lobby = [c \in Players |-> TRUE]
    /\ can_delete = [c \in Players |-> FALSE]
    /\ deleted = {}
    /\ to_delete = FALSE
    /\ lobby_removed = FALSE
    /\ recorded = 0
    /\ quit_pressed = [c \in Players |-> FALSE]
    /\ end_game_msgs = [c \in Players |-> 0]
    /\ end_game_seen = [c \in Players |-> FALSE]
    /\ forfeits = 0
    /\ first_quitter = 0
    /\ last_args = Args(FALSE, TRUE, TRUE, TRUE, starting_player)
    /\ client = [player_turn |-> starting_player, break |-> TRUE,
                 open |-> TRUE, can_shoot |-> TRUE,
                 starting_player |-> starting_player]
    /\ last_sent = <<"load_settings", "create_game">>

HandlerStep(c) ==
    \/ HitBallForce(c)
    \/ HitBallDoCheck(c)
    \/ HitBallPending(c)
    \/ FinishedDrawing(c)
    \/ PlaceBall(c)
    \/ PassTurn(c)
    \/ Keep(c)
    \/ Redo(c)

LobbyNext ==
    \/ UpdateStep
    \/ \E c \in Players : HandlerStep(c)

RulesNext ==
    \/ \E c \in Players : HitBall(c)
    \/ Settle
    \/ Evaluate
    \/ \E c \in Players : FinishedDrawing(c)
    \/ \E c \in Players : PlaceBall(c)
    \/ \E c \in Players : PassTurn(c)
    \/ \E c \in Players : Keep(c)
    \/ \E c \in Players : Redo(c)

(***************************************************************************)
(* The channel specification                                               *)
(***************************************************************************)
\* Connection.__init__ followed by Connection.start on both sides
ChanStart ==
    /\ in_use = [p \in Peers |-> TRUE]
    /\ waiting = [p \in Peers |-> FALSE]
    /\ send_queue = [p \in Peers |-> <<>>]
    /\ send_length = [p \in Peers |-> 0]
    /\ receive_queue = [p \in Peers |-> <<>>]
    /\ receive_length = [p \in Peers |-> 0]
    /\ wire = [p \in Peers |-> <<>>]
    /\ send_pc = [p \in Peers |-> "deq"]
    /\ send_data = [p \in Peers |-> NoneItem]
    /\ prev_data = [p \in Peers |-> NoneItem]
    /\ times_resent = [p \in Peers |-> 0]
    /\ recv_pc = [p \in Peers |-> "recv"]
    /\ proc_pc = [p \in Peers |-> "deq"]
    /\ submitted = [p \in Peers |-> 0]
    /\ cue_submitted = [p \in Peers |-> 0]
    /\ quit_sent = FALSE
    /\ early_timeouts = 0
    /\ transmitted = [p \in Peers |-> {}]
    /\ acked = [p \in Peers |-> {}]
    /\ replies = [p \in Peers |-> [k \in 1..MaxMsgs |-> 0]]
    /\ broken = [p \in Peers |-> "no"]

SenderStep(p) ==
    \/ SenderDequeue(p)
    \/ SenderResend(p)
    \/ ServerGiveUp(p)
    \/ ClientGiveUp(p)
    \/ SenderTransmit(p)

\* the two Connections before any Lobby command is handled
ChanInit ==
    ChanStart /\ LobbyStart /\ SenderIdle /\ AuxIdle /\ starting_player = 1

ChanNext ==
    \/ \E p \in Peers : SenderStep(p)
    \/ \E p \in Peers : ReceiverRecv(p)
    \/ \E p \in Peers : ReceiverError(p)
    \/ \E p \in Peers : ProcessorStep(p)
    \/ \E p \in Peers : AppSend(p)
    \/ \E p \in Peers : AppSendCue(p)
    \/ ClientQuit

ChanSpec == ChanInit /\ [][ChanNext]_vars

\* every thread that can take a step eventually takes it; the applications
\* and the network's failures are under no obligation
ChanFairness ==
    \A p \in Peers :
        /\ WF_vars(SenderStep(p))
        /\ WF_vars(ReceiverRecv(p))
        /\ WF_vars(ProcessorStep(p))

FairChanSpec == ChanInit /\ [][ChanNext]_vars /\ ChanFairness

\* the two Connections with peers that also send what cannot be
\* dispatched or decoded; the network itself does not fail
DispatchNext ==
    \/ \E p \in Peers : SenderStep(p)
    \/ \E p \in Peers : ReceiverRecv(p)
    \/ \E p \in Peers : ReceiverDecodeError(p)
    \/ \E p \in Peers : ProcessorStep(p)
    \/ \E p \in Peers : AppSend(p)
    \/ \E p \in Peers : AppSendBad(p)
    \/ \E p \in Peers : MalformedArrives(p)

DispatchSpec == ChanInit /\ [][DispatchNext]_vars

\* a sender about to write a frame of any length up to MaxFrameLen
ChunkInit ==
    /\ ChanStart
    /\ LobbyStart
    /\ AuxIdle
    /\ starting_player = 1
    /\ frame \in {Frame(n) : n \in MinFrameLen..MaxFrameLen}
    /\ chunk_i = 0
    /\ written = <<>>
    /\ chunk_pc = "first"

ChunkNext ==
    \/ WriteChunk
    \/ EndLoop
    \/ Retransmit

ChunkSpec == ChunkInit /\ [][ChunkNext]_vars

\* two idle Connections and a stream nothing has been written to
StreamInit ==
    /\ ChanStart /\ LobbyStart /\ SenderIdle /\ starting_player = 1
    /\ StreamIdle /\ TableIdle /\ BallIdle /\ bx = BallRadius /\ LoginIdle
    /\ NewLobbyIdle /\ QueueIdle /\ LateIdle

StreamNext ==
    \/ \E m \in StreamMessages : StreamSend(m)
    \/ StreamRecv

StreamSpec == StreamInit /\ [][StreamNext]_vars

\* a racked Table; the Lobby and the Connections take no step
TableNext ==
    \/ TableUpdate
    \/ TablePlaceBall
    \/ TableResetCounts

TableSpec == ChanInit /\ [][TableNext]_vars

\* a ball at rest anywhere between the rails
BallInit ==
    /\ ChanStart /\ LobbyStart /\ SenderIdle /\ starting_player = 1
    /\ StreamIdle /\ rx_waiting = FALSE /\ TableIdle /\ LoginIdle
    /\ NewLobbyIdle /\ QueueIdle /\ LateIdle
    /\ BallIdle

BallNext ==
    \/ BallStrike
    \/ BallUpdate

BallSpec == BallInit /\ [][BallNext]_vars

\* one Connection sending login, logout and other commands
LoginNext ==
    \/ LoginAttempt
    \/ Logout
    \/ ChangeReceptionState
    \/ Ready

LoginSpec == ChanInit /\ [][LoginNext]_vars

\* a new Lobby that players join, get ready in, and leave
NewLobbyNext ==
    \/ JoinLobby
    \/ \E p \in Players : PlayerReady(p)
    \/ ManageNewLobby
    \/ GameStarts
    \/ \E p \in Players : PlayerLeaves(p)
    \/ \E p \in Players : ConnectionBreaks(p)
    \/ \E p \in Players : ManageLeaver(p)
    \/ \E p \in Players : ManageGone(p)

NewLobbySpec == ChanInit /\ [][NewLobbyNext]_vars

\* a Queue used through its methods
QueueNext ==
    \/ QueueEnqueue
    \/ QueueDequeue
    \/ QueuePeek
    \/ QueueClear

QueueSpec == ChanInit /\ [][QueueNext]_vars

StrikeNext ==
    \/ ApplyForce
    \/ StrikeUpdate

StrikeSpec == ChanInit /\ [][StrikeNext]_vars

CueNext ==
    \/ ClientSendCueData
    \/ UpdateCueState
    \/ SendCueData
    \/ ChangeReceptionState

CueSpec == ChanInit /\ [][CueNext]_vars

CollisionNext ==
    \/ CheckCollision

CollisionSpec == ChanInit /\ [][CollisionNext]_vars

DbNext ==
    \/ TakeRequestId
    \/ IncrementRequestId
    \/ EnqueueRequest
    \/ PeekProcessed
    \/ RemoveProcessed
    \/ ProcessDatabaseRequest

DbSpec == ChanInit /\ [][DbNext]_vars

JoinNext ==
    \/ JoinTest
    \/ JoinAddPlayer
    \/ ManageJoinedLobby

JoinSpec == ChanInit /\ [][JoinNext]_vars


\* every thread keeps running; the database thread serves every request
DbFairness ==
    /\ WF_vars(IncrementRequestId)
    /\ WF_vars(EnqueueRequest)
    /\ WF_vars(PeekProcessed)
    /\ WF_vars(RemoveProcessed)
    /\ WF_vars(ProcessDatabaseRequest)

FairDbSpec == DbSpec /\ DbFairness

\* a Lobby with two players on idle Connections
LobbyInit == ChanStart /\ LobbyStart /\ SenderIdle /\ AuxIdle

LobbySpec == LobbyInit /\ [][LobbyNext]_vars

\* the update loop and the processor threads keep running, and a client
\* whose table simulates a shot sends finished_drawing when it settles;
\* nobody is obliged to shoot, place, pass or choose
LobbyFairness ==
    /\ WF_vars(UpdateStep)
    /\ \A c \in Players :
          /\ WF_vars(HitBallDoCheck(c))
          /\ WF_vars(HitBallPending(c))
          /\ WF_vars(FinishedDrawing(c))

FairLobbySpec == LobbyInit /\ [][LobbyNext]_vars /\ LobbyFairness

RulesSpec == LobbyInit /\ [][RulesNext]_vars

\* a started match in which a player may leave, by the quit control or by
\* a broken channel, while the break shot is played
QuitNext ==
    \/ \E c \in Players : HitBall(c)
    \/ Settle
    \/ \E c \in Players : FinishedDrawing(c)
    \/ \E c \in Players : QuitCommand(c)
    \/ \E c \in Players : ClientEndGame(c)
    \/ \E c \in Players : ChannelBreaks(c)
    \/ \E c \in Players : ManagePlayersQuit(c)
    \/ \E c \in Players : ManagePlayersDelete(c)
    \/ ManageLobbies

QuitSpec == LobbyInit /\ [][QuitNext]_vars

(***************************************************************************)
(* The Lobby's command handlers as the Connection's processor calls them:  *)
(* Lobby.add_player registers __hit_ball, __pass_turn and __place_ball on  *)
(* both players' Connections, and __process_data calls the handler of      *)
(* whatever request arrives (a repeated frame included).  HitBall,         *)
(* PassTurn and PlaceBall above are the same handlers called when the      *)
(* client's own state lets it send the command.  cmd_from is the player    *)
(* whose Connection called the handler last.                               *)
(***************************************************************************)
\* Lobby.__hit_ball(player, number, force, angle) for a ball on the table
HandleHitBall(c) ==
    /\ ~finished
    /\ cmd_count < MaxCommands
    /\ cmd_count' = cmd_count + 1
    /\ cmd_from' = c
    /\ moving' = TRUE
    /\ checked' = FALSE
    /\ do_check' = TRUE
    /\ pending' = Players
    /\ last_sent' = <<"hit_ball">>
    /\ client' = ClientProcess(client, <<"hit_ball">>, last_args)
    /\ drawing' = [p \in Players |-> TRUE]
    /\ client_ready' = FALSE
    /\ client_can_pass' = FALSE
    /\ simulated' = FALSE
    /\ drawn' = {}
    /\ UNCHANGED <<notGuardLate, chanVars, quitVars, frameVars, auxVars, closings, last_args,
                   player_turn, break, open, p1_is_striped, striped_balls,
                   spotted_balls, can_shoot, can_pass_turn, victor, finished,
                   starting_player, balls, holding, hit, rail_contacts,
                   pocketed, in_motion, update_pc, hit_pc, choosing, hits,
                   evals, last_eval>>

\* Lobby.__place_ball(ball_pos); with no ball held the first statement
\* raises AttributeError before anything is changed
HandlePlaceBall(c) ==
    /\ ~finished
    /\ cmd_count < MaxCommands
    /\ cmd_count' = cmd_count + 1
    /\ cmd_from' = c
    /\ holding
    /\ holding' = FALSE
    /\ last_sent' = <<"place_ball">>
    /\ UNCHANGED <<notGuardLate, chanVars, quitVars, frameVars, auxVars, closings, last_args, client,
                   player_turn, break, open, p1_is_striped, striped_balls,
                   spotted_balls, can_shoot, can_pass_turn, checked, do_check,
                   pending, victor, finished, starting_player, balls, hit,
                   rail_contacts, pocketed, in_motion, moving, update_pc,
                   hit_pc, drawing, client_ready, client_can_pass, choosing,
                   hits, evals, simulated, drawn, last_eval>>

\* Lobby.__pass_turn()
HandlePassTurn(c) ==
    /\ ~finished
    /\ cmd_count < MaxCommands
    /\ cmd_count' = cmd_count + 1
    /\ cmd_from' = c
    /\ player_turn' = OtherTurn(player_turn)
    /\ last_sent' = <<"pass_turn", "start_next_turn">>
    /\ last_args' = Args(FALSE, break, open, TRUE, starting_player)
    /\ client' = ClientProcess(client, <<"pass_turn", "start_next_turn">>,
                               Args(FALSE, break, open, TRUE, starting_player))
    /\ client_can_pass' = FALSE
    /\ UNCHANGED <<notGuardLate, chanVars, quitVars, frameVars, auxVars, closings,
                   break, open, p1_is_striped, striped_balls, spotted_balls,
                   can_shoot, can_pass_turn, checked, do_check, pending,
                   victor, finished, starting_player, balls, holding, hit,
                   rail_contacts, pocketed, in_motion, moving, update_pc,
                   hit_pc, drawing, client_ready, choosing, hits, evals,
                   simulated, drawn, last_eval>>

GuardNext ==
    \/ \E c \in Players : HandleHitBall(c)
    \/ \E c \in Players : HandlePlaceBall(c)
    \/ \E c \in Players : HandlePassTurn(c)
    \/ Settle
    \/ Evaluate
    \/ \E c \in Players : FinishedDrawing(c)
    \/ \E c \in Players : Keep(c)
    \/ \E c \in Players : Redo(c)

GuardSpec == LobbyInit /\ [][GuardNext]_vars


(***************************************************************************)
(* Claims about the Connection                                             *)
(***************************************************************************)

\* C1: every significant message the sender transmits (waiting set) is
\* eventually followed by waiting being cleared or by the channel being
\* declared broken (in_use false): the sender never stays waiting forever.
C1_AckedOrBroken ==
    \A p \in Peers : waiting[p] ~> (~waiting[p] \/ ~in_use[p])

\* C2: between the transmission of significant message k and the peer's
\* acknowledgment of k no later significant message is transmitted: a
\* sender whose channel is in use never has two transmitted significant
\* messages unacknowledged.
C2_AckGated ==
    \A p \in Peers : in_use[p] => Cardinality(transmitted[p] \ acked[p]) <= 1

\* C3: the peer produces exactly one `received` reply per significant
\* message the sender submitted (never a second one for the same message).
C3_OneReplyPerMessage ==
    \A p \in Peers : \A k \in 1..MaxMsgs : replies[p][k] <= 1

\* C4: when the sender gives up after three resends the Connection is
\* broken (in_use false, waiting false) with both queues empty, on the
\* server and on the client, and no frame is written once the sender has
\* declared the channel broken.
C4_BrokenClearsQueues ==
    [][\A p \in Peers :
          /\ (broken[p] = "no" /\ broken'[p] = "sender") =>
                 /\ ~in_use'[p]
                 /\ ~waiting'[p]
                 /\ send_queue'[p] = <<>>
                 /\ receive_queue'[p] = <<>>
          /\ broken[p] = "sender" => Len(wire'[Other(p)]) <= Len(wire[Other(p)])
      ]_vars

\* C5: after in_use becomes false (by disconnect or by the channel being
\* declared broken) the processor and the sender both eventually leave
\* their loops.
C5_WorkersLeave ==
    \A p \in Peers :
        ~in_use[p] ~> (send_pc[p] = "done" /\ proc_pc[p] = "done")

\* C19: a message with an unknown command or a wrong number of arguments,
\* and a malformed frame, is dropped without terminating the channel: the
\* Connection stays in use (no frame that fails to decode makes a receiver
\* declare the channel broken) and its processor thread keeps dispatching
\* (it never ends on a message it cannot dispatch).
C19_BadMessageDropped ==
    \A p \in Peers : broken[p] # "decode" /\ proc_pc[p] # "dead"

\* C20: for every frame (JSON text plus the terminator) of any length, the
\* chunks the sender writes concatenate to exactly the whole frame with its
\* terminator, when the frame is first sent and when it is retransmitted.
C20_ChunksMakeFrame ==
    chunk_pc \in {"sent", "done"} => written = frame

(***************************************************************************)
(* Claims about the Lobby                                                  *)
(***************************************************************************)

\* C6: a rule evaluation starts only after the Lobby's Table has simulated
\* the shot (it was in motion and is at rest again) and after every player
\* put in `pending` by that hit_ball has had its finished_drawing handled.
C6_CheckAfterSettle ==
    last_eval.happened =>
        /\ last_eval.simulated
        /\ ~last_eval.in_motion
        /\ last_eval.drawn = Players

\* C7: every hit_ball handled is eventually followed by its rule evaluation
\* (which produces its one outcome): once k shots were handled, k
\* evaluations are eventually made.
C7_EveryShotEvaluated ==
    \A k \in 1..MaxShots : (hits = k) ~> (evals = k)

\* C8 as stated: in an evaluation that is not a break and has the 8-ball in
\* the pocketed list, the opponent is the victor if the 8-ball is the first
\* item of the list, or the table is open, or the shooter has group balls
\* left; otherwise the shooter is the victor.
C8_EightBallFirstLoses ==
    (last_eval.happened /\ ~last_eval.break /\ last_eval.eight_index >= 0) =>
        victor = IF \/ last_eval.eight_index = 0
                    \/ last_eval.open
                    \/ last_eval.player_balls > 0
                 THEN OtherTurn(last_eval.shooter)
                 ELSE last_eval.shooter

\* C8 amended: in an evaluation that is not a break and has the 8-ball in
\* the pocketed list, the opponent is the victor if the 8-ball is not the
\* first item of the list, or the table is open, or the shooter's group
\* list (before this turn's pocketed balls are removed) is not empty;
\* otherwise the shooter is the victor.
C8_EightBallDecision ==
    (last_eval.happened /\ ~last_eval.break /\ last_eval.eight_index >= 0) =>
        victor = IF \/ last_eval.eight_index > 0
                    \/ last_eval.open
                    \/ last_eval.player_balls > 0
                 THEN OtherTurn(last_eval.shooter)
                 ELSE last_eval.shooter

\* a shooter with a closed table and no group ball left pockets another
\* ball and then the 8-ball, and the opponent is the victor
C8_Witness ==
    /\ last_eval.happened
    /\ ~last_eval.break
    /\ last_eval.eight_index > 0
    /\ ~last_eval.open
    /\ last_eval.player_balls = 0
    /\ victor = OtherTurn(last_eval.shooter)

\* C9: when the shooter pockets the 8-ball on a turn that is not a break
\* while having group balls left before the shot, `victory` is broadcast
\* with the opponent's number, the Lobby records the opponent as victor and
\* ends the game, and no start_next_turn is broadcast afterwards.
C9_EarlyEightBallLoses ==
    (/\ last_eval.happened
     /\ ~last_eval.break
     /\ last_eval.eight_index >= 0
     /\ last_eval.balls_before > 0) =>
        /\ last_eval.winner = OtherTurn(last_eval.shooter)
        /\ victor = OtherTurn(last_eval.shooter)
        /\ finished
        /\ last_sent = <<"victory">>

\* the shooter had 2 group balls left and pocketed the 8-ball
C9_Witness ==
    /\ last_eval.happened
    /\ ~last_eval.break
    /\ last_eval.eight_index >= 0
    /\ last_eval.balls_before = 2
    /\ victor = OtherTurn(last_eval.shooter)
    /\ last_sent = <<"victory">>

\* C10: a victory is never produced by an evaluation whose pocketed list
\* does not contain the 8-ball.
C10_VictoryNeedsEightBall ==
    (victor # 0 \/ finished \/ Count(last_sent, "victory") > 0) =>
        /\ last_eval.happened
        /\ last_eval.eight_index >= 0
        /\ ~last_eval.break

\* a victory was produced: the shooter legally pocketed the 8-ball
C10_Witness ==
    /\ last_sent = <<"victory">>
    /\ last_eval.eight_index = 0
    /\ victor = last_eval.shooter

(***************************************************************************)
(* Claims about the rule outcomes                                          *)
(***************************************************************************)

\* C11 as stated: over the whole match, across every break foul, keep, redo
\* and forced redo, the Lobby's open flag changes from true to false at most
\* once.
C11_ClosedOncePerMatch == closings <= 1

\* C11 amended: the open flag goes back from false to true only in a step
\* that re-racks (create_game is sent, break is true again and no groups
\* are assigned), so the table closes at most once per rack; a match with a
\* redone break can close the table once after each rack.
C11_ReopenedOnlyByRerack ==
    [][(~open /\ open') =>
           /\ Count(last_sent', "create_game") = 1
           /\ break'
           /\ p1_is_striped' = "None"
           /\ balls' = RackedBalls
      ]_vars

\* the table was closed on a fouled break and the redo re-racked it open
C11_Witness ==
    /\ closings >= 1
    /\ open
    /\ break
    /\ last_sent = <<"load_settings", "create_game">>

\* C12 as stated: when a break is fouled without a forced redo, the
\* non-offending player is sent redo_choice and the Lobby's turn owner is
\* not changed until that player answers with redo or keep.
C12_TurnKeptUntilAnswer ==
    choosing # 0 =>
        /\ choosing = OtherTurn(last_eval.shooter)
        /\ player_turn = last_eval.shooter

\* C12 amended: when a break is fouled without a forced redo, redo_choice
\* is sent to the non-offending player and the same rule application makes
\* that player the turn owner, with can_shoot false; the answer (redo or
\* keep) leaves the turn owner as it is.
C12_TurnGivenWithChoice ==
    [][/\ (~checked /\ checked' /\ last_eval'.branch = "redo_choice") =>
              /\ last_eval'.break
              /\ last_eval'.foul
              /\ choosing' = OtherTurn(player_turn)
              /\ Count(last_sent', "redo_choice") = 1
              /\ player_turn' = OtherTurn(player_turn)
              /\ ~can_shoot'
       /\ (choosing # 0 /\ choosing' = 0) => player_turn' = player_turn
      ]_vars

\* the choice is open at the non-offending player, who already owns the turn
C12_Witness ==
    /\ choosing # 0
    /\ choosing = OtherTurn(last_eval.shooter)
    /\ player_turn = choosing
    /\ ~can_shoot

\* C13: when the table is open and in break, player 1 breaks, no ball is
\* pocketed and fewer than 4 rail contacts are recorded, the evaluation
\* reports a foul, the turn owner becomes player 2, and the table is still
\* open and still in break after the rules are applied.
C13_DryBreakFoul ==
    [][(/\ ~checked /\ checked'
        /\ break
        /\ open
        /\ player_turn = 1
        /\ pocketed = <<>>
        /\ rail_contacts < 4) =>
           /\ last_eval'.foul
           /\ Count(last_sent', "redo_choice") = 1
           /\ player_turn' = 2
           /\ open'
           /\ break'
      ]_vars

\* player 1 broke and nothing was pocketed, with too few rail contacts
C13_Witness ==
    /\ last_eval.happened
    /\ last_eval.break
    /\ last_eval.open
    /\ last_eval.shooter = 1
    /\ last_eval.none_pocketed
    /\ last_eval.foul
    /\ choosing = 2
    /\ player_turn = 2
    /\ open
    /\ break

\* C14: when the 8-ball is pocketed on the break, the Lobby re-racks (a new
\* Table with a full rack, break true, open true, no groups assigned, empty
\* accumulators), the player who did not shoot becomes the breaker, and for
\* that shot no start_next_turn is sent, no foul penalty is applied and no
\* victory is declared.
C14_EightOnBreakReracks ==
    [][(/\ ~checked /\ checked'
        /\ break
        /\ Count(pocketed, "eight") > 0) =>
           /\ balls' = RackedBalls
           /\ break'
           /\ open'
           /\ p1_is_striped' = "None"
           /\ striped_balls' = GroupSize
           /\ spotted_balls' = GroupSize
           /\ hit' = <<>>
           /\ pocketed' = <<>>
           /\ rail_contacts' = 0
           /\ player_turn' = OtherTurn(player_turn)
           /\ starting_player' = OtherTurn(player_turn)
           /\ last_sent' = <<"force_redo_message", "load_settings", "create_game">>
           /\ ~holding'
           /\ victor' = 0
           /\ ~finished'
      ]_vars

\* the 8-ball went down on the break and the other player breaks a new rack
C14_Witness ==
    /\ last_eval.happened
    /\ last_eval.break
    /\ last_eval.eight_index >= 0
    /\ last_eval.branch = "force_redo"
    /\ balls = RackedBalls
    /\ break
    /\ open
    /\ player_turn = OtherTurn(last_eval.shooter)
    /\ last_sent = <<"force_redo_message", "load_settings", "create_game">>

\* C15: on a closed table, when the shooter pockets at least one ball of
\* their own group and the evaluation finds no foul and no victory, the
\* turn owner is unchanged and the following start_next_turn carries
\* continued = true (the shooter may pass).
C15_OwnBallContinues ==
    [][(/\ ~checked /\ checked'
        /\ ~open
        /\ Count(pocketed, PlayerKind(player_turn, p1_is_striped)) > 0
        /\ ~last_eval'.foul
        /\ last_eval'.winner = 0) =>
           /\ player_turn' = player_turn
           /\ last_sent' = <<"start_next_turn">>
           /\ last_args'.continued
           /\ can_pass_turn'
      ]_vars

\* a shooter on a closed table pocketed a ball of their group and goes on
C15_Witness ==
    /\ last_eval.happened
    /\ ~last_eval.open
    /\ last_eval.own_pocketed
    /\ ~last_eval.foul
    /\ last_eval.winner = 0
    /\ player_turn = last_eval.shooter
    /\ last_sent = <<"start_next_turn">>
    /\ last_args.continued

\* C16: when a non-break foul is applied (and no victory was reached), the
\* cue ball becomes the Table's held ball, unable to collide and at rest,
\* the turn owner switches to the opponent, foul is broadcast before
\* start_next_turn, and continuation is not offered even when the shooter
\* pocketed a ball of their own group.
C16_FoulPenalty ==
    [][(/\ ~checked /\ checked'
        /\ ~break
        /\ last_eval'.foul
        /\ last_eval'.winner = 0) =>
           /\ holding'
           /\ ~moving'
           /\ player_turn' = OtherTurn(player_turn)
           /\ Count(last_sent', "foul") = 1
           /\ Count(last_sent', "start_next_turn") = 1
           /\ \E i, j \in DOMAIN last_sent' :
                 /\ i < j
                 /\ last_sent'[i] = "foul"
                 /\ last_sent'[j] = "start_next_turn"
           /\ ~last_args'.continued
           /\ ~can_pass_turn'
      ]_vars

\* a shooter fouled while pocketing a ball of their own group: the
\* opponent has the cue ball in hand and no continuation was offered
C16_Witness ==
    /\ last_eval.happened
    /\ ~last_eval.break
    /\ last_eval.foul
    /\ last_eval.winner = 0
    /\ last_eval.own_pocketed
    /\ holding
    /\ player_turn = OtherTurn(last_eval.shooter)
    /\ last_sent[1] = "foul"
    /\ ~last_args.continued

\* C18: after a client has handled every outcome command of an evaluation
\* (up to start_next_turn, or create_game after a redo), of a keep or of a
\* voluntary pass_turn, the client's turn owner, break flag, open flag and
\* can_shoot flag equal the Lobby's.
C18_ClientMirrorsLobby ==
    (last_sent[Len(last_sent)] \in {"start_next_turn", "create_game", "keep"}) =>
        /\ client.player_turn = player_turn
        /\ client.break = break
        /\ client.open = open
        /\ client.can_shoot = can_shoot

\* a voluntary pass: the client changed the turn three times, the Lobby once
C18_Witness ==
    /\ last_sent = <<"pass_turn", "start_next_turn">>
    /\ client.player_turn = player_turn
    /\ client.player_turn # last_eval.shooter
    /\ client.can_shoot

\* C17: when one player's channel breaks or the player quits during a
\* started match, the Lobby ends the game with the other player recorded as
\* victor, end_game is sent only to the remaining player, and the lobby is
\* flagged for deletion; the forfeit is applied exactly once for that lobby.
C17_ForfeitAppliedOnce ==
    first_quitter # 0 =>
        /\ forfeits = 1
        /\ finished
        /\ victor = OtherTurn(first_quitter)
        /\ to_delete
        /\ end_game_msgs[first_quitter] = 0
        /\ end_game_msgs[OtherTurn(first_quitter)] = 1
        /\ recorded \in {0, OtherTurn(first_quitter)}

(***************************************************************************)
(* Claims about the receiver, the Table and the Server's bookkeeping.      *)
(***************************************************************************)
\* C21: for any sequence of messages sent and any way the stream is cut
\* into reads, the receiver hands to the inbound queue exactly the sent
\* non-acknowledgment messages, each once and in the order sent, whatever
\* string values their args contain: the receiver never fails on what was
\* sent, what it has handed on is a prefix of the requests sent, and all of
\* them once every character has been read.
C21_FramesDelivered ==
    /\ ~rx_error
    /\ Len(delivered) <= Len(Requests(tx_msgs))
    /\ delivered = SubSeq(Requests(tx_msgs), 1, Len(delivered))
    /\ (stream = <<>> /\ full_data = <<>>) => delivered = Requests(tx_msgs)

\* C22: between re-racks, the number of live balls on the Table plus the
\* number of balls pocketed so far in the session is constant (the racked
\* number) after every Table.update, whichever balls enter pockets and
\* however many enter in the same tick.
C22_BallCountConstant == Len(tb_balls) + tb_session = Len(TableRack)

\* C22 (amended): the number of balls in Table.balls plus the number of
\* balls other than the cue ball appended to Table.pocketed since the rack
\* is constant; a pocketed cue ball is appended to Table.pocketed and stays
\* in Table.balls as the ball in hand.
C22_ObjectBallCountConstant ==
    /\ Len(tb_balls) + (tb_session - tb_cue_session) = Len(TableRack)
    /\ tb_holding => CueBall \in Range(tb_balls)

\* two numbered balls and the cue ball went into pockets
C22_Witness ==
    /\ tb_session - tb_cue_session >= 2
    /\ tb_cue_session >= 1
    /\ Len(tb_balls) = Len(TableRack) - 2

\* C23: after every Table.update, every live ball's position lies inside
\* the table rectangle, strictly between the table's pos and upper_pos,
\* whatever the ball's speed and whatever collisions were resolved.
C23_BallInsideTable == 0 < bx /\ bx < TableLength

\* C24: once a connection has accumulated 5 failed logins, every later
\* login command on that connection is rejected with action_failure and
\* does not log the user in, whatever other commands the client sends in
\* between.
C24_LockedOutStaysOut ==
    last_login.locked =>
        /\ last_login.reply = "action_failure"
        /\ ~last_login.logged_in

\* C25: if a player quits a lobby before its game has started, no victor is
\* recorded (the lobby's victor stays None) and the lobby is deleted without
\* game statistics being recorded, whether one or two players had joined.
C25_EarlyQuitNoVictor ==
    lb_early_quit =>
        /\ lb_victor = 0
        /\ ~lb_recorded
        /\ lb_to_delete

\* C26: Queue.peek returns the item at the front of the queue, the same item
\* the next dequeue would return, leaves the queue unchanged, and returns
\* None on an empty queue.
C26_PeekIsFront ==
    last_peek.done =>
        /\ last_peek.result = DequeueResult(last_peek.before)
        /\ last_peek.after = last_peek.before

(***************************************************************************)
(* Claims about the rule checks of an evaluation.                          *)
(***************************************************************************)
\* C27: during a break evaluation a foul is reported exactly when (zero
\* balls were pocketed and fewer than 4 distinct numbered balls contacted a
\* rail) or the 8-ball was pocketed or the cue ball was pocketed; the redo
\* is forced exactly when the 8-ball was pocketed, and a pocketed cue ball
\* alone leaves the choice to the other player.
C27_BreakFoulExactly ==
    [][(/\ ~checked /\ checked'
        /\ break) =>
           /\ last_eval'.foul <=>
                  \/ pocketed = <<>> /\ rail_contacts < 4
                  \/ Count(pocketed, "eight") > 0
                  \/ Count(pocketed, "cue") > 0
           /\ last_eval'.branch = "force_redo" <=> Count(pocketed, "eight") > 0
           /\ (Count(pocketed, "cue") > 0 /\ Count(pocketed, "eight") = 0) =>
                  /\ last_eval'.branch = "redo_choice"
                  /\ Count(last_sent', "redo_choice") = 1
                  /\ Count(last_sent', "force_redo_message") = 0
      ]_vars

\* a break that pocketed the cue ball and not the 8-ball: a foul, and the
\* other player is asked
C27_Witness ==
    /\ last_eval.happened
    /\ last_eval.break
    /\ ~last_eval.none_pocketed
    /\ last_eval.eight_index = -1
    /\ last_eval.foul
    /\ last_eval.branch = "redo_choice"
    /\ holding
    /\ choosing = OtherTurn(last_eval.shooter)

\* the first three foul reasons of a non-break evaluation, read from the
\* Table's lists and the Lobby's fields as the evaluation finds them
NoBallStruck == hit = <<>>

WrongBallFirst ==
    /\ ~open
    /\ hit # <<>>
    /\ hit[1] # PlayerKind(player_turn, p1_is_striped)
    /\ (hit[1] = "eight" =>
            PlayerBalls(player_turn, p1_is_striped, striped_balls, spotted_balls) # 0)

NoPocketNoRail == pocketed = <<>> /\ rail_contacts = 0

\* C28 as stated: in a non-break evaluation a foul is reported exactly when
\* no ball was struck, or the table is closed and the first struck ball is
\* not of the shooter's group (the 8-ball first being legal only when that
\* group is empty), or there were zero pockets and zero rail contacts, or
\* the only pocketed ball is the cue ball.
C28_FoulExactlyListed ==
    [][(/\ ~checked /\ checked'
        /\ ~break) =>
           (last_eval'.foul <=>
                \/ NoBallStruck
                \/ WrongBallFirst
                \/ NoPocketNoRail
                \/ pocketed = <<"cue">>)
      ]_vars

\* C28: in a non-break evaluation a foul is reported exactly when no ball
\* was struck, or the table is closed and the first struck ball is not of
\* the shooter's group (the 8-ball first being legal only when that group
\* is empty), or there were zero pockets and zero rail contacts, or the cue
\* ball is among the pocketed balls, alone or not.
C28_FoulExactlyWithCue ==
    [][(/\ ~checked /\ checked'
        /\ ~break) =>
           (last_eval'.foul <=>
                \/ NoBallStruck
                \/ WrongBallFirst
                \/ NoPocketNoRail
                \/ Count(pocketed, "cue") > 0)
      ]_vars

\* a foul on an open table in a shot that pocketed a ball of the group the
\* shooter was given: only the cue ball pocketed with it explains the foul
C28_Witness ==
    /\ last_eval.happened
    /\ ~last_eval.break
    /\ last_eval.open
    /\ last_eval.own_pocketed
    /\ last_eval.winner = 0
    /\ last_eval.foul
    /\ last_eval.branch = "foul"

\* the other group
OtherKind(kind) == IF kind = "striped" THEN "spotted" ELSE "striped"

\* an evaluation made while the table is open
OpenEvaluation == ~checked /\ checked' /\ open

\* a group is given to the players in this step
GroupAssigned == p1_is_striped' # p1_is_striped /\ p1_is_striped' # "None"

\* the shooter has the type of the first coloured ball pocketed and the
\* opponent the other type
ShooterGetsFirstColoured ==
    LET kind == pocketed[FirstColoured(pocketed)]
    IN  /\ PlayerKind(player_turn, p1_is_striped') = kind
        /\ PlayerKind(OtherTurn(player_turn), p1_is_striped') = OtherKind(kind)

\* C29 as stated: groups are assigned only in an evaluation made while the
\* table is open; with the 8-ball struck first no group is assigned and the
\* table stays open whatever was pocketed; otherwise the first pocketed ball
\* that is neither the cue ball nor the 8-ball gives its type to the shooter
\* and the other type to the opponent, and the table becomes closed.
C29_AssignmentClosesTable ==
    [][/\ GroupAssigned => OpenEvaluation
       /\ OpenEvaluation =>
              IF hit # <<>> /\ hit[1] = "eight"
              THEN ~GroupAssigned /\ open'
              ELSE Coloured(pocketed) # {} =>
                       ShooterGetsFirstColoured /\ ~open'
      ]_vars

\* C29: groups are assigned only in an evaluation made while the table is
\* open; with the 8-ball struck first no group is assigned and the table
\* stays open whatever was pocketed; otherwise the first pocketed ball that
\* is neither the cue ball nor the 8-ball gives its type to the shooter and
\* the other type to the opponent, and the table becomes closed unless the
\* rule application returns early: a forced redo re-racks, which leaves no
\* group and an open table, and a victory keeps the groups and leaves open
\* as it was.
C29_AssignmentClosesUnlessEarlyReturn ==
    [][/\ GroupAssigned => OpenEvaluation
       /\ OpenEvaluation =>
              IF hit # <<>> /\ hit[1] = "eight"
              THEN ~GroupAssigned /\ open'
              ELSE Coloured(pocketed) # {} =>
                       CASE last_eval'.branch = "force_redo" ->
                                p1_is_striped' = "None" /\ open'
                         [] last_eval'.branch = "victory" ->
                                ShooterGetsFirstColoured /\ open'
                         [] OTHER ->
                                ShooterGetsFirstColoured /\ ~open'
      ]_vars

\* player 2 pocketed a spotted ball first on the open table: player 1 is
\* striped and the table is closed
C29_Witness ==
    /\ last_eval.happened
    /\ last_eval.open
    /\ last_eval.shooter = 2
    /\ last_eval.own_pocketed
    /\ checked
    /\ ~open
    /\ p1_is_striped = "True"
    /\ ~finished

\* __apply_rules runs to its last statement: neither the forced redo nor
\* the victory returned early
FullRuleApplication ==
    /\ ~checked /\ checked'
    /\ last_eval'.branch \notin {"force_redo", "victory"}

\* stop_open of __check_game_state
ClosureSignalled ==
    open /\ OpenTableCheck(player_turn, p1_is_striped, hit, pocketed).stop_open

\* __create_game in this step: a new Table with a full rack is announced
ReRack ==
    /\ last_sent' # last_sent
    /\ Count(last_sent', "create_game") > 0
    /\ balls' = RackedBalls

\* list `new` is list `old` with entries appended, or `old` itself
Extends(new, old) ==
    /\ Len(new) >= Len(old)
    /\ SubSeq(new, 1, Len(old)) = old

\* the Table's three lists keep in this step every entry they have
ListsKept ==
    /\ Extends(hit', hit)
    /\ Extends(pocketed', pocketed)
    /\ rail_contacts' >= rail_contacts

\* C30: after a rule application that does not return early, break has
\* become false if this was the break and it was not fouled, open has
\* become false if closure was signalled, and the Table's hit, rail_contacts
\* and pocketed lists are empty; the lists lose entries only there or by a
\* re-rack, and every other step, Table.update included, only appends to
\* them, so an evaluation reads what was logged since the lists were last
\* emptied.
C30_ResetAfterRules ==
    [][/\ FullRuleApplication =>
              /\ (break /\ ~last_eval'.foul) => ~break'
              /\ ClosureSignalled => ~open'
              /\ hit' = <<>>
              /\ rail_contacts' = 0
              /\ pocketed' = <<>>
       /\ ~ListsKept => (FullRuleApplication \/ ReRack)
       /\ (~checked /\ checked' /\ ~ReRack) =>
              /\ last_eval'.none_pocketed <=> pocketed = <<>>
              /\ last_eval'.eight_index = EightIndex(pocketed)
      ]_vars

\* a legal break that pocketed a coloured ball has been evaluated: the
\* break is over, the table is closed and the three lists are empty
C30_Witness ==
    /\ last_eval.happened
    /\ last_eval.break
    /\ last_eval.open
    /\ ~last_eval.foul
    /\ ~last_eval.none_pocketed
    /\ last_eval.branch \in {"continue", "next"}
    /\ checked
    /\ ~break
    /\ ~open
    /\ hit = <<>>
    /\ rail_contacts = 0
    /\ pocketed = <<>>

(***************************************************************************)
(* Claims about pocket resolution, the channel under load, the strike,     *)
(* telemetry, the database requests and the Lobby's guards.                *)
(***************************************************************************)
\* C31: after one Table.resolve_pockets every non-cue ball appended to
\* `pocketed` in that call is no longer in the live ball list, every ball
\* removed from the live list in that call is one that was appended, and a
\* pocketed cue ball stays in the live list and becomes the held ball.
C31_PocketedAreTheRemoved ==
    [][tb_session' > tb_session =>
           LET added == SubSeq(tb_pocketed', Len(tb_pocketed) + 1,
                               Len(tb_pocketed'))
           IN  /\ \A b \in Range(added) \ {CueBall} : b \notin Range(tb_balls')
               /\ \A b \in Range(tb_balls) \ Range(tb_balls') : b \in Range(added)
               /\ CueBall \in Range(added) =>
                      CueBall \in Range(tb_balls') /\ tb_holding'
      ]_vars

\* C32: the sender's wait for an outstanding acknowledgment applies only
\* before a significant message: a sender held in the wait loop never has a
\* `received` reply or an advisory message in hand, so that two peers with
\* one unacknowledged significant message each still acknowledge each other
\* and neither sender gives up while both peers are reachable.
C32_AckNotGated ==
    \A p \in Peers :
        (in_use[p] /\ send_pc[p] = "wait" /\ waiting[p]) =>
            send_data[p].command \notin IgnoreReceived(p)

C34_TelemetryChanges ==
    /\ \A k \in 1..(Len(cd_log) - 1) : cd_log[k] # cd_log[k + 1]
    /\ \A k \in 1..(Len(cc_log) - 1) : cc_log[k] # cc_log[k + 1]


\* the centre's projection onto the segment's line lies within the segment
ProjectionWithinExtent(circle, line) ==
    LET along == DotProduct(VecSub(circle.centre, line.coord1), line.vector)
    IN  0 <= along /\ along <= MagnitudeSquared(line.vector)

\* the perpendicular distance from the centre to the line is within a radius
\* (both sides of the comparison multiplied by the segment's squared length)
PerpendicularWithinRadius(circle, line) ==
    LET d == VecSub(circle.centre, line.coord1)
        along == DotProduct(d, line.vector)
        len2 == MagnitudeSquared(line.vector)
    IN  MagnitudeSquared(d) * len2 - along * along <= circle.radius * circle.radius * len2

\* the nearer end of the segment is within a radius of the centre
EndpointWithinRadius(circle, line) ==
    \/ MagnitudeSquared(VecSub(circle.centre, line.coord1)) <= circle.radius * circle.radius
    \/ MagnitudeSquared(VecSub(circle.centre, line.coord2)) <= circle.radius * circle.radius

\* C35: circle_line_collision_check returns true exactly when the segment
\* comes within one radius of the circle's centre: with the centre's
\* projection inside the segment's extent, when the perpendicular distance is
\* at most the radius; otherwise when the nearer endpoint is at most a radius
\* away; and the call changes neither the circle nor the segment.
C35_CollisionIffWithinRadius ==
    cl_called =>
        /\ cl_result = IF ProjectionWithinExtent(cl_args.circle, cl_args.line)
                       THEN PerpendicularWithinRadius(cl_args.circle, cl_args.line)
                       ELSE EndpointWithinRadius(cl_args.circle, cl_args.line)
        /\ cl_circle = cl_args.circle
        /\ cl_line = cl_args.line

\* a circle that touches the rail from the side exactly above the rail's end
\* (the projection is the endpoint itself), and is reported as colliding
C35_Witness ==
    /\ cl_called
    /\ cl_result
    /\ NewPosition(cl_args.circle, cl_args.line) = cl_args.line.coord2
    /\ MagnitudeSquared(VecSub(cl_args.circle.centre, cl_args.line.coord2)) = cl_args.circle.radius * cl_args.circle.radius


\* the requests whose identifier is in use: issued and, if a result is
\* awaited, not yet returned
AwaitedRequests == {c \in Callers : rq_pc[c] \in {"increment", "enqueue", "peek", "remove"}}

\* C36: every call of __add_db_request that awaits a result returns the
\* result produced for its own request, also with several connection
\* threads issuing requests concurrently: no caller shares its request id
\* with another caller, takes a result off the processed queue that was
\* produced for another request, or returns another request's result.
C36_OwnResultOnly ==
    /\ \A c1, c2 \in AwaitedRequests : c1 # c2 => rq_id[c1] # rq_id[c2]
    /\ \A pair \in rq_removed : pair[2][1] = pair[1]
    /\ \A c \in Callers : rq_returned[c] # NoResult => rq_returned[c].for[1] = c


\* the liveness half of the same claim, refuted under FairDbSpec: a thread
\* that waits for its result gets it.  A thread whose result was taken off
\* the queue by another thread peeks for ever.
AwaitedCallReturns == \A c \in Callers : (rq_pc[c] = "peek") ~> (rq_pc[c] = "idle")


\* how often the processor of peer p has called the handler of the sender's
\* k-th significant message: __process_data calls self.commands[...] in the
\* pass of its loop in which it enqueues the `received` reply for the request
HandlerCalls(p, k) == replies[p][k]

\* C37: the peer's processor dispatches each significant message to its
\* handler at most once per message the sender submitted: the copy of a
\* message whose handler has already run is not dispatched again.
C37_NoSecondDispatch ==
    [][\A p \in Peers : \A k \in 1..MaxMsgs :
          HandlerCalls(p, k)' > HandlerCalls(p, k) => HandlerCalls(p, k) = 0]_vars


\* C38: once a Lobby has recorded a victor (by rule victory or by forfeit),
\* the recorded victor never changes until the lobby's statistics are
\* recorded: no later command and no later channel break of either player
\* gives victor (and with it victor_id, assigned in the same call of
\* end_game) another value.
C38_VictorKept ==
    [][(victor # 0 /\ recorded = 0 /\ ~lobby_removed) => victor' = victor]_vars


\* the state of the Table, as far as a command can change it
TableState == <<balls, holding, hit, rail_contacts, pocketed, in_motion, moving>>

\* C39: the Lobby changes its Table or its turn owner in response to a
\* player command only when the command comes from the current turn owner in
\* a state that allows it: hit_ball with can_shoot true and no shot being
\* simulated, pass_turn when continuation was offered, place_ball when a
\* ball is held; otherwise the turn owner and the Table stay as they are.
C39_CommandsGuarded ==
    [][\A c \in Players :
          /\ (HandleHitBall(c) /\ ~(player_turn = c /\ can_shoot /\ ~moving /\ ~in_motion)) =>
                 /\ player_turn' = player_turn
                 /\ TableState' = TableState
          /\ (HandlePassTurn(c) /\ ~(player_turn = c /\ can_pass_turn)) =>
                 /\ player_turn' = player_turn
                 /\ TableState' = TableState
          /\ (HandlePlaceBall(c) /\ ~(player_turn = c /\ holding)) =>
                 /\ player_turn' = player_turn
                 /\ TableState' = TableState]_vars


\* C40: a Lobby never holds more than two players, also when the processor
\* threads of two connections handle join_lobby for the same lobby at the
\* same time.
C40_AtMostTwoPlayers == Len(jn_players) <= 2

=============================================================================
